---- MODULE Spec2Model ----
(***************************************************************************)
(* ThreatCode scanning pipeline: CodeAnalyzer.analyze (bounded-concurrency *)
(* batch fan-out, result merge, maker-checker validation pass) and the     *)
(* retry envelope of OpenRouterProvider.analyze_code / validate_finding.   *)
(* The methods of FileCollector, OpenRouterProvider and ReportData that     *)
(* take no part in the scheduling are also followed call by call, each on  *)
(* inputs of its own (SpecCalls).                                           *)
(***************************************************************************)
EXTENDS Integers, Sequences, FiniteSets, TLC

\* ---------------------------------------------------------------- bounds
MaxBatches == 2      \* largest number of batches of one run
MaxWorkersCap == 2   \* largest max_workers value explored

\* ------------------------------------------------------ program constants
MaxAttempts == 3     \* stop_after_attempt(3)

\* ------------------------------------------------------------- data model
\* Fields declared by the pydantic model Finding. The model keeps the
\* default pydantic configuration, so an attribute outside this set can be
\* neither assigned nor read on a Finding instance.
FindingFields ==
  {"title", "severity", "description", "evidence", "remediation",
   "cvss_score", "impact", "attack_scenario", "references"}

\* Names the validation pass assigns on a finding.
ValidationAttrs ==
  <<"validated", "validation_verdict", "validation_confidence",
    "validation_rationale", "validated_by_model">>

\* Evidence entries a maker response can carry.
EvidenceA == [file_path |-> "a.py", code |-> "eval(x)"]

\* Well-formed findings a maker response can list ("origin" is filled in
\* by the model when the response is received: the batch that produced it).
MakerFindings ==
  { [title |-> "A", severity |-> "High", description |-> "dA",
     evidence |-> <<EvidenceA>>, remediation |-> "rA", origin |-> 0],
    [title |-> "B", severity |-> "Low", description |-> "dB",
     evidence |-> <<>>, remediation |-> "rB", origin |-> 0] }

FindingA == CHOOSE f \in MakerFindings : f.title = "A"
FindingB == CHOOSE f \in MakerFindings : f.title = "B"

\* Finding lists a maker response can carry.
FindingLists ==
  {<<>>, <<FindingA>>, <<FindingB>>, <<FindingA, FindingA>>,
   <<FindingA, FindingB>>}

\* Finding.__getattr__ / hasattr as seen by a reader of the object.
Attr(f, name) == IF name \in DOMAIN f THEN f[name] ELSE "unset"

\* pydantic BaseModel.__setattr__ on a Finding: assignment to a declared
\* field succeeds, assignment to any other name raises ValueError.
SetAttr(f, name, value) ==
  IF name \in FindingFields
  THEN [ok |-> TRUE, f |-> (name :> value) @@ f]
  ELSE [ok |-> FALSE, f |-> f]

\* A run of consecutive attribute assignments; stops at the first one that
\* raises, keeping the assignments made before it.
RECURSIVE SetAttrs(_, _, _)
SetAttrs(f, names, values) ==
  IF names = <<>> THEN [ok |-> TRUE, f |-> f]
  ELSE LET r == SetAttr(f, Head(names), Head(values))
       IN IF r.ok THEN SetAttrs(r.f, Tail(names), Tail(values)) ELSE r

\* ---------------------------------------------------- provider responses
\* One HTTP attempt seen from the client: transport failure, or a status
\* with a body; a decodable body carries the message content, which is
\* described by the features _parse_findings / _parse_validation test.
NoContent ==
  [brace |-> FALSE, regex |-> FALSE, decode |-> "none", repair_ok |-> FALSE,
   is_list |-> FALSE, findings |-> <<>>, verdict |-> "none",
   confidence |-> "none"]

NetworkError ==
  [transport |-> "error", status |-> 0, body |-> "none", content |-> NoContent]

HttpStatus(s) ==
  [transport |-> "ok", status |-> s, body |-> "none", content |-> NoContent]

BodyNotJson ==
  [transport |-> "ok", status |-> 200, body |-> "not_json", content |-> NoContent]

BodyNoContent ==
  [transport |-> "ok", status |-> 200, body |-> "no_content", content |-> NoContent]

WithContent(c) ==
  [transport |-> "ok", status |-> 200, body |-> "ok", content |-> c]

ContentValid(fl) ==
  [NoContent EXCEPT !.brace = TRUE, !.decode = "ok", !.is_list = TRUE,
                    !.findings = fl]
ContentFenced(fl) ==
  [NoContent EXCEPT !.regex = TRUE, !.decode = "ok", !.is_list = TRUE,
                    !.findings = fl]
ContentProse == NoContent
ContentTruncatedRepairable(fl) ==
  [NoContent EXCEPT !.brace = TRUE, !.decode = "truncated", !.repair_ok = TRUE,
                    !.is_list = TRUE, !.findings = fl]
ContentTruncatedBroken ==
  [NoContent EXCEPT !.brace = TRUE, !.decode = "truncated"]
ContentOtherDecodeError ==
  [NoContent EXCEPT !.brace = TRUE, !.decode = "other"]
ContentFindingsNotList ==
  [NoContent EXCEPT !.brace = TRUE, !.decode = "ok"]

ErrorStatuses == {401, 429, 500}

FailedResponses ==
  {NetworkError, BodyNotJson, BodyNoContent}
  \cup { HttpStatus(s) : s \in ErrorStatuses }
  \cup { WithContent(c) : c \in {ContentProse, ContentTruncatedBroken,
                                 ContentOtherDecodeError,
                                 ContentFindingsNotList} }

MakerResponses ==
  FailedResponses
  \cup { WithContent(ContentValid(fl)) : fl \in FindingLists }
  \cup { WithContent(ContentFenced(<<>>)) }
  \cup { WithContent(ContentTruncatedRepairable(<<>>)) }

NoResponse ==
  [transport |-> "none", status |-> 0, body |-> "none", content |-> NoContent]

\* Checker verdict documents.
ContentVerdict(v, c) ==
  [NoContent EXCEPT !.brace = TRUE, !.decode = "ok", !.verdict = v,
                    !.confidence = c]

\* The checker answers with a verdict the prompt asks for, or with a JSON
\* object whose "verdict" and "confidence" are other strings.
CheckerResponses ==
  FailedResponses
  \cup { WithContent(ContentVerdict(v, c)) :
           v \in {"Confirmed", "Likely False Positive"}, c \in {"High"} }
  \cup { WithContent(ContentVerdict("Probably Fine", "Very High")) }

\* --------------------------------------------------------------- parsing
\* _parse_findings(content, raise_on_error=True): fence stripping and the
\* regex search leave a text starting with "{" or raise; a decode error
\* with truncation symptoms gets one repair attempt; a non-list "findings"
\* raises. Every raise here is JSONParseError.
ParseFindings(c) ==
  IF ~c.brace /\ ~c.regex
  THEN [exc |-> "JSONParseError", findings |-> <<>>]
  ELSE IF c.decode = "truncated" /\ ~c.repair_ok
  THEN [exc |-> "JSONParseError", findings |-> <<>>]
  ELSE IF c.decode \notin {"ok", "truncated"}
  THEN [exc |-> "JSONParseError", findings |-> <<>>]
  ELSE IF ~c.is_list
  THEN [exc |-> "JSONParseError", findings |-> <<>>]
  ELSE [exc |-> "none", findings |-> c.findings]

\* _parse_validation(content, raise_on_error=True): no repair attempt.
ParseValidation(c) ==
  IF ~c.brace /\ ~c.regex
  THEN [exc |-> "JSONParseError", verdict |-> "none", confidence |-> "none"]
  ELSE IF c.decode # "ok"
  THEN [exc |-> "JSONParseError", verdict |-> "none", confidence |-> "none"]
  ELSE [exc |-> "none",
        verdict |-> IF c.verdict = "none" THEN "Needs Review" ELSE c.verdict,
        confidence |-> IF c.confidence = "none" THEN "Low" ELSE c.confidence]

\* The part of one attempt shared by analyze_code and validate_finding:
\* client.post, raise_for_status, response.json(), choices[0].message.content.
\* Returns the exception class raised, or "none" when the content was read.
TransportOutcome(r) ==
  IF r.transport = "error" THEN "HTTPError"
  ELSE IF r.status # 200 THEN "HTTPError"
  ELSE IF r.body = "not_json" THEN "JSONDecodeError"
  ELSE IF r.body = "no_content" THEN "KeyError"
  ELSE "none"

\* One attempt of analyze_code.
AnalyzeAttempt(r) ==
  IF TransportOutcome(r) # "none"
  THEN [exc |-> TransportOutcome(r), findings |-> <<>>]
  ELSE ParseFindings(r.content)

\* One attempt of validate_finding.
ValidateAttempt(r) ==
  IF TransportOutcome(r) # "none"
  THEN [exc |-> TransportOutcome(r), verdict |-> "none", confidence |-> "none"]
  ELSE ParseValidation(r.content)

\* ------------------------------------------------------- retry envelope
\* retry=retry_if_exception_type((httpx.HTTPError, JSONParseError))
RetryIfException(e) == e \in {"HTTPError", "JSONParseError"}

\* Variant: the stop condition is off by one.
StopAfterAttemptLate(n) == n > MaxAttempts

\* stop=stop_after_attempt(3)
StopAfterAttempt(n) == n >= MaxAttempts

\* wait=wait_exponential(multiplier=1, min=2, max=10): the seconds tenacity
\* sleeps after failed attempt number n, multiplier * 2 ** (n - 1) kept
\* between min and max.
WaitExponential(attempt_number) ==
  LET multiplier == 1
      min == 2
      max == 10
      result == multiplier * 2 ^ (attempt_number - 1)
      capped == IF result < max THEN result ELSE max
  IN IF capped > min THEN capped ELSE min

\* tenacity's decision after an attempt: the value is returned, the
\* exception is re-raised as is (not retryable), RetryError is raised
\* (attempts exhausted), or the call sleeps and tries again.
RetryDecision(e, attempt) ==
  IF e = "none" THEN "return"
  ELSE IF ~RetryIfException(e) THEN "raise"
  ELSE IF StopAfterAttempt(attempt) THEN "retry_error"
  ELSE "sleep"

\* The exception the caller of the decorated function sees.
RaisedBy(e, attempt) ==
  IF RetryDecision(e, attempt) = "retry_error" THEN "RetryError" ELSE e

\* ------------------------------------------------------------------ state
\* The analyzer reads enable_checker and the checker settings from the
\* llm_config object it is constructed with and max_workers / input_path
\* from scan_config; they are inputs of a run and never change during it.
\* Batch tasks are numbered in the order gather receives them. A provider
\* call is followed step by step: request in flight, backoff sleep between
\* attempts, rate-limit sleep after the parsed response.
VARIABLES
  provider,         \* llm_config.provider
  checker_provider, \* llm_config.checker_provider ("None" if not set)
  path_exists,      \* scan_config.input_path names an existing file or directory
  enable_checker,   \* llm_config.enable_checker
  rate_limit_delay, \* llm_config.rate_limit_delay, in tenths of a second
  max_workers,      \* scan_config.max_workers
  input_relative,   \* scan_config.input_path was given as a relative path
  nbatches,         \* len(batches)
  has_chunks,       \* per batch: read_file_chunked gave at least one chunk
  pc,               \* position of analyze()
  exc,              \* exception raised by analyze(), "none" if none
  sem,              \* value of the asyncio.Semaphore
  tpc,              \* per batch task: position
  attempts,         \* per batch task: attempts of its analyze_code call, running or failed
  lastresp,         \* per batch task: response of its latest failed attempt
  parsed,           \* per batch task: findings analyze_code is returning
  call_exc,         \* per batch task: exception analyze_code raised
  results,          \* per batch task: what gather collects for it
  slept,            \* per batch task: time its call slept in apply_rate_limit
  batch_codes,      \* self.batch_codes
  all_findings,     \* all_findings of analyze()
  report,           \* the ReportData analyze() returns
  vpc,              \* position of the validation pass
  vidx,             \* index (1-based) of the finding under validation
  vattempts,        \* attempt number of the current validate_finding call
  vlastresp,        \* response of its latest failed attempt
  vresult,          \* verdict document validate_finding is returning
  vcalls,           \* validate_finding calls made: finding index, original_code
  vfailed,          \* indices of the findings whose validate_finding raised
  given,            \* the list _validate_findings was called with
  validated_findings, \* validated_findings of _validate_findings
  vslept            \* time the validate_finding calls slept in apply_rate_limit

\* A method call followed on its own: the receiver, the arguments (with the
\* part of the environment the method reads) and what the call gave.
VARIABLES
  method,           \* name of the method called
  self,             \* fields of the object it is called on
  args,             \* its arguments
  locals,           \* its local variables while it runs step by step
  ret,              \* exception raised ("none" if none) and value returned
  cpc               \* "call" before the method ran, "return" after

callvars == <<method, self, args, locals, ret, cpc>>
cfgvars == <<provider, checker_provider, path_exists, enable_checker,
             rate_limit_delay, max_workers, input_relative, nbatches, has_chunks>>
taskvars == <<sem, tpc, attempts, lastresp, parsed, call_exc, results, slept>>
valvars == <<vpc, vidx, vattempts, vlastresp, vresult, vcalls, vfailed, given,
             validated_findings, vslept>>
pipevars == <<cfgvars, pc, exc, taskvars, batch_codes, all_findings, report,
              valvars>>
vars == <<pipevars, callvars>>

Batches == 1..nbatches

\* str.lower() on the letters A to Z.
UpperCase == "ABCDEFGHIJKLMNOPQRSTUVWXYZ"
LowerCase == "abcdefghijklmnopqrstuvwxyz"
LowerChar(c) ==
  IF \E i \in 1..Len(UpperCase) : SubSeq(UpperCase, i, i) = c
  THEN LET i == CHOOSE i \in 1..Len(UpperCase) : SubSeq(UpperCase, i, i) = c
       IN SubSeq(LowerCase, i, i)
  ELSE c
RECURSIVE Lower(_)
Lower(s) ==
  IF Len(s) = 0 THEN ""
  ELSE LowerChar(SubSeq(s, 1, 1)) \o Lower(SubSeq(s, 2, Len(s)))

\* A value under a key of a decoded JSON object: its type and its text;
\* "absent" stands for a key the object does not have.
JStr(x) == [t |-> "str", s |-> x]
JInt(x) == [t |-> "int", s |-> x]
JNull == [t |-> "null", s |-> ""]
JAbsent == [t |-> "absent", s |-> ""]

\* ----------------------------------------------------------- ReportData
MaxReportFindings == 3   \* longest finding list of a ReportData followed alone
AppName == "Demo"        \* scan_config.application_name

\* ReportData(application_name, findings): severity_stats is the empty dict,
\* executive_summary and conclusion are None.
ReportData(application_name, findings) ==
  [made |-> TRUE, application_name |-> application_name, findings |-> findings,
   severity_stats |-> [k \in {} |-> 0], executive_summary |-> JNull,
   conclusion |-> JNull]

\* The key calculate_severity_stats counts a severity under.
SeverityKeyNoInfo(severity) == Lower(severity)
SeverityKey(severity) ==
  LET severity_key == Lower(severity)
  IN IF severity_key = "informational" THEN "info" ELSE severity_key

\* The loop of calculate_severity_stats.
RECURSIVE CountSeverities(_, _)
CountSeverities(findings, severity_stats) ==
  IF findings = <<>> THEN severity_stats
  ELSE LET severity_key == SeverityKey(Head(findings).severity)
       IN CountSeverities(Tail(findings),
            IF severity_key \in DOMAIN severity_stats
            THEN [severity_stats EXCEPT ![severity_key] = @ + 1]
            ELSE severity_stats)

\* calculate_severity_stats
CalculateSeverityStats(rd) ==
  [rd EXCEPT !.severity_stats =
     CountSeverities(rd.findings,
       [k \in {"critical", "high", "medium", "low", "info"} |-> 0])]

\* severity_stats.get(key, 0)
StatsGet(rd, key) ==
  IF key \in DOMAIN rd.severity_stats THEN rd.severity_stats[key] ELSE 0

\* generate_executive_summary
GenerateExecutiveSummary(rd) ==
  LET total == Len(rd.findings)
  IN [rd EXCEPT !.executive_summary = JStr(
       IF total = 0
       THEN "<p>The automated security scan completed successfully with <strong>no vulnerabilities detected</strong> in the analyzed codebase.</p>"
       ELSE "<p>The automated security analysis identified <strong>"
            \o ToString(total) \o " security finding(s)</strong> in the "
            \o rd.application_name \o " codebase:</p>\n<ul>\n"
            \o "<li><strong>Critical:</strong> " \o ToString(StatsGet(rd, "critical"))
            \o " issue(s) requiring immediate attention</li>\n"
            \o "<li><strong>High:</strong> " \o ToString(StatsGet(rd, "high"))
            \o " issue(s) that should be addressed soon</li>\n"
            \o "<li><strong>Medium:</strong> " \o ToString(StatsGet(rd, "medium"))
            \o " issue(s) requiring review</li>\n"
            \o "<li><strong>Low:</strong> " \o ToString(StatsGet(rd, "low"))
            \o " minor issue(s)</li>\n"
            \o "<li><strong>Informational:</strong> " \o ToString(StatsGet(rd, "info"))
            \o " best practice recommendation(s)</li>\n</ul>\n"
            \o "<p>This report provides detailed findings with remediation guidance for each identified vulnerability.</p>")]

\* generate_conclusion
GenerateConclusion(rd) ==
  LET total == Len(rd.findings)
      critical == StatsGet(rd, "critical")
      high == StatsGet(rd, "high")
  IN [rd EXCEPT !.conclusion = JStr(
       IF total = 0
       THEN "<p>The codebase demonstrates good security practices with no vulnerabilities identified during this automated scan. Continue following secure coding practices and perform regular security assessments.</p>"
       ELSE IF critical > 0 \/ high > 0
       THEN "<p>The analysis identified <strong>" \o ToString(critical + high)
            \o " critical/high severity</strong> issue(s) that require immediate attention. It is strongly recommended to:</p>\n<ul>\n"
            \o "<li>Prioritize remediation of Critical and High severity findings</li>\n"
            \o "<li>Implement the suggested fixes as outlined in each finding</li>\n"
            \o "<li>Conduct code review of the remediated sections</li>\n"
            \o "<li>Re-scan the codebase after implementing fixes</li>\n"
            \o "<li>Consider implementing automated security scanning in your CI/CD pipeline</li>\n</ul>"
       ELSE "<p>The codebase shows generally good security practices with primarily medium/low severity findings. Recommendations:</p>\n<ul>\n"
            \o "<li>Address the identified Medium and Low severity issues during regular maintenance cycles</li>\n"
            \o "<li>Review and implement the informational best practice recommendations</li>\n"
            \o "<li>Continue regular security assessments</li>\n"
            \o "<li>Consider security training for the development team</li>\n</ul>")]

NoVerdict == [exc |-> "none", verdict |-> "none", confidence |-> "none"]
NoReport == [ReportData(AppName, <<>>) EXCEPT !.made = FALSE]

\* The combined code text _process_batch builds for batch b.
CodeChunk(b) == [kind |-> "batch", batch |-> b, evidence |-> <<>>]

\* No method call is followed on its own.
NoReturn == [exc |-> "none", value |-> <<>>]
CallsIdle ==
  /\ method = "none"
  /\ self = <<>>
  /\ args = <<>>
  /\ locals = <<>>
  /\ ret = NoReturn
  /\ cpc = "idle"

\* rate_limit_delay is a float between 0 and 10 seconds (default 0.5); the
\* runs take no delay or the default one.
RateLimitDelays == {0, 5}

\* Variant: the call returns without sleeping.
ApplyRateLimitNever(delay) == 0

\* apply_rate_limit: the time the call sleeps, asyncio.sleep being called
\* for a positive delay only.
ApplyRateLimit(delay) == IF delay > 0 THEN delay ELSE 0

\* Variant: the providers are looked up when they are first used.
CreateProvidersLazily(p, ec, cp) == "none"

\* CodeAnalyzer.__init__: _create_provider raises ValueError for a provider
\* it does not know; with the checker enabled _create_checker_provider
\* raises ValueError when no checker provider is set or it is not known.
CreateProviders(p, ec, cp) ==
  LET known == {"openrouter", "openai", "custom"}
  IN IF p \notin known THEN "ValueError"
     ELSE IF ec /\ cp \notin known THEN "ValueError"
     ELSE "none"

\* A run starts with CodeAnalyzer(scan_config, llm_config) about to be
\* constructed. The settings that make no difference to a run that gets
\* going are drawn once: the known provider is openrouter, the checker
\* provider is read only with the checker enabled, and a path that does not
\* exist holds no file.
Init ==
  /\ CallsIdle
  /\ provider \in {"openrouter", "unknown"}
  /\ enable_checker \in BOOLEAN
  /\ checker_provider \in IF enable_checker
                          THEN {"None", "openrouter", "unknown"} ELSE {"None"}
  /\ path_exists \in BOOLEAN
  /\ rate_limit_delay \in RateLimitDelays
  /\ max_workers \in 1..MaxWorkersCap
  /\ input_relative \in BOOLEAN
  /\ nbatches \in IF path_exists THEN 0..MaxBatches ELSE {0}
  /\ has_chunks \in [1..nbatches -> BOOLEAN]
  /\ pc = "new"
  /\ exc = "none"
  /\ sem = max_workers
  /\ tpc = [b \in 1..nbatches |-> "pending"]
  /\ attempts = [b \in 1..nbatches |-> 0]
  /\ lastresp = [b \in 1..nbatches |-> NoResponse]
  /\ parsed = [b \in 1..nbatches |-> <<>>]
  /\ call_exc = [b \in 1..nbatches |-> "none"]
  /\ results = [b \in 1..nbatches |-> [exc |-> "none", findings |-> <<>>]]
  /\ slept = [b \in 1..nbatches |-> 0]
  /\ batch_codes = [k \in {} |-> CodeChunk(0)]
  /\ all_findings = <<>>
  /\ report = NoReport
  /\ vpc = "idle"
  /\ vidx = 0
  /\ vattempts = 0
  /\ vlastresp = NoResponse
  /\ vresult = NoVerdict
  /\ vcalls = <<>>
  /\ vfailed = {}
  /\ vslept = 0
  /\ given = <<>>
  /\ validated_findings = <<>>

\* ------------------------------------------------- construction, start
\* CodeAnalyzer(scan_config, llm_config) is constructed: the providers are
\* created, or ValueError leaves the run.
Construct ==
  /\ pc = "new"
  /\ LET e == CreateProviders(provider, enable_checker, checker_provider)
     IN /\ pc' = IF e = "none" THEN "analyze" ELSE "raised"
        /\ exc' = e
  /\ UNCHANGED <<callvars, cfgvars, taskvars, batch_codes, all_findings, report,
                 valvars>>

\* analyze() calls collect_files, which raises ValueError for an input path
\* that does not exist, and create_batches on the files found.
CollectAndBatch ==
  /\ pc = "analyze"
  /\ IF ~path_exists
     THEN pc' = "raised" /\ exc' = "ValueError"
     ELSE pc' = (IF nbatches = 0 THEN "collected" ELSE "gather") /\ exc' = exc
  /\ UNCHANGED <<callvars, cfgvars, taskvars, batch_codes, all_findings, report,
                 valvars>>

\* ------------------------------------------------------- batch fan-out
\* Variant: the semaphore never blocks.
SemaphoreFreeNoLimit(s) == TRUE

\* asyncio.Semaphore: a task passes "async with semaphore" only while the
\* value is positive.
SemaphoreFree(s) == s > 0

\* finding_key = f"{finding.title}_{n}"
FindingKey(title, n) == title \o "_" \o ToString(n)

\* Variant: the index is read once, before the loop.
StoreCodesIndexReadOnce(codes, fl, chunk) ==
  LET n == Cardinality(DOMAIN codes)
      keys == { FindingKey(fl[i].title, n) : i \in 1..Len(fl) }
  IN [k \in keys \cup DOMAIN codes |-> IF k \in keys THEN chunk ELSE codes[k]]

\* The storing loop of _process_batch: each finding of the batch is keyed
\* by its title and the size of batch_codes at that moment.
RECURSIVE StoreCodes(_, _, _)
StoreCodes(codes, fl, chunk) ==
  IF fl = <<>> THEN codes
  ELSE StoreCodes(
         (FindingKey(Head(fl).title, Cardinality(DOMAIN codes)) :> chunk) @@ codes,
         Tail(fl), chunk)

\* Findings of a response, as objects created while batch b is processed.
Tagged(fl, b) == [i \in 1..Len(fl) |-> [fl[i] EXCEPT !.origin = b]]

\* A task enters "async with semaphore" (tasks are woken in creation order)
\* and runs _process_batch up to its first suspension: a batch without any
\* chunk returns [] at once, relative_to raises when input_path is not the
\* resolved root of the collected paths, otherwise the first request is sent.
StartBatch(b) ==
  /\ pc = "gather"
  /\ tpc[b] = "pending"
  /\ \A c \in Batches : c < b => tpc[c] # "pending"
  /\ SemaphoreFree(sem)
  /\ IF ~has_chunks[b]
     THEN /\ tpc' = [tpc EXCEPT ![b] = "resolved"]
          /\ UNCHANGED <<sem, attempts, results>>
     ELSE IF input_relative
     THEN /\ tpc' = [tpc EXCEPT ![b] = "resolved"]
          /\ results' = [results EXCEPT ![b] = [exc |-> "ValueError", findings |-> <<>>]]
          /\ UNCHANGED <<sem, attempts>>
     ELSE /\ tpc' = [tpc EXCEPT ![b] = "request"]
          /\ sem' = sem - 1
          /\ attempts' = [attempts EXCEPT ![b] = 1]
          /\ UNCHANGED results
  /\ UNCHANGED <<callvars, cfgvars, pc, exc, lastresp, parsed, call_exc, slept,
                 batch_codes, all_findings, report, valvars>>

\* analyze_code returns findings fs after sleeping t in apply_rate_limit:
\* _process_batch stores the batch text per finding when the checker is
\* enabled and returns the findings, and the semaphore is released.
ProcessBatchReturns(b, fs, t) ==
  /\ tpc' = [tpc EXCEPT ![b] = "resolved"]
  /\ batch_codes' = IF enable_checker
                    THEN StoreCodes(batch_codes, fs, CodeChunk(b))
                    ELSE batch_codes
  /\ results' = [results EXCEPT ![b] = [exc |-> "none", findings |-> fs]]
  /\ sem' = sem + 1
  /\ attempts' = [attempts EXCEPT ![b] = 0]
  /\ slept' = [slept EXCEPT ![b] = slept[b] + t]

\* The response to the request in flight of batch b arrives: analyze_code
\* goes on to its rate-limit sleep, sleeps before another attempt, or raises
\* into the except clause of _process_batch, which returns [].
AttemptResponse(b, r) ==
  /\ pc = "gather"
  /\ tpc[b] = "request"
  /\ LET o == AnalyzeAttempt(r)
         d == RetryDecision(o.exc, attempts[b])
     IN CASE d = "return" ->
               /\ parsed' = [parsed EXCEPT ![b] = Tagged(o.findings, b)]
               /\ IF ApplyRateLimit(rate_limit_delay) > 0
                  THEN /\ tpc' = [tpc EXCEPT ![b] = "ratelimit"]
                       /\ UNCHANGED <<sem, results, attempts, batch_codes, slept>>
                  ELSE ProcessBatchReturns(b, Tagged(o.findings, b), 0)
               /\ UNCHANGED <<lastresp, call_exc>>
          [] d = "sleep" ->
               /\ tpc' = [tpc EXCEPT ![b] = "backoff"]
               /\ lastresp' = [lastresp EXCEPT ![b] = r]
               /\ UNCHANGED <<sem, parsed, call_exc, results, attempts,
                              batch_codes, slept>>
          [] OTHER ->
               /\ tpc' = [tpc EXCEPT ![b] = "resolved"]
               /\ lastresp' = [lastresp EXCEPT ![b] = r]
               /\ call_exc' = [call_exc EXCEPT ![b] = RaisedBy(o.exc, attempts[b])]
               /\ sem' = sem + 1
               /\ UNCHANGED <<parsed, results, attempts, batch_codes, slept>>
  /\ UNCHANGED <<callvars, cfgvars, pc, exc, all_findings, report, valvars>>

\* The backoff sleep of batch b ends and the next attempt is sent.
RetryAttempt(b) ==
  /\ pc = "gather"
  /\ tpc[b] = "backoff"
  /\ tpc' = [tpc EXCEPT ![b] = "request"]
  /\ attempts' = [attempts EXCEPT ![b] = attempts[b] + 1]
  /\ lastresp' = [lastresp EXCEPT ![b] = NoResponse]
  /\ UNCHANGED <<callvars, cfgvars, pc, exc, sem, parsed, call_exc, results, slept,
                 batch_codes, all_findings, report, valvars>>

\* The rate-limit sleep of batch b ends and analyze_code returns.
ReturnFindings(b) ==
  /\ pc = "gather"
  /\ tpc[b] = "ratelimit"
  /\ ProcessBatchReturns(b, parsed[b], ApplyRateLimit(rate_limit_delay))
  /\ UNCHANGED <<callvars, cfgvars, pc, exc, lastresp, parsed, call_exc,
                 all_findings, report, valvars>>

\* ------------------------------------------------------ merge and report
\* Variant: the loop stops at the first result that is an exception or empty.
RECURSIVE MergeResultsStopAtFailure(_)
MergeResultsStopAtFailure(rs) ==
  IF rs = <<>> THEN <<>>
  ELSE IF Head(rs).exc # "none" \/ Head(rs).findings = <<>> THEN <<>>
  ELSE Head(rs).findings \o MergeResultsStopAtFailure(Tail(rs))

\* Variant: each result takes the place of the findings gathered before it.
RECURSIVE MergeResultsOverwrite(_)
MergeResultsOverwrite(rs) ==
  IF rs = <<>> THEN <<>>
  ELSE IF Head(rs).exc # "none" \/ MergeResultsOverwrite(Tail(rs)) # <<>>
  THEN MergeResultsOverwrite(Tail(rs))
  ELSE Head(rs).findings

\* The loop over the gather results: an exception is a warning, any other
\* result is appended to all_findings.
RECURSIVE MergeResults(_)
MergeResults(rs) ==
  IF rs = <<>> THEN <<>>
  ELSE (IF Head(rs).exc # "none" THEN <<>> ELSE Head(rs).findings)
       \o MergeResults(Tail(rs))

\* The report analyze() builds from all_findings: the ReportData, then
\* calculate_severity_stats, generate_executive_summary, generate_conclusion.
MakeReport(fl) ==
  GenerateConclusion(
    GenerateExecutiveSummary(CalculateSeverityStats(ReportData(AppName, fl))))

\* ------------------------------------------------------- validation pass
EmptyCode == [kind |-> "empty", batch |-> 0, evidence |-> <<>>]

\* original_code of _validate_findings for the finding at 0-based position
\* idx: the text stored under f"{title}_{idx}", else the evidence snippets
\* when the finding has evidence, else the empty string.
OriginalCode(f, idx, codes) ==
  LET key == FindingKey(f.title, idx)
      stored == IF key \in DOMAIN codes THEN codes[key] ELSE EmptyCode
  IN IF stored = EmptyCode /\ f.evidence # <<>>
     THEN [kind |-> "evidence", batch |-> 0, evidence |-> f.evidence]
     ELSE stored

\* The assignments of the try block after validate_finding returned v.
AnnotateResult(f, v) ==
  SetAttrs(f, ValidationAttrs,
           <<TRUE, v.verdict, v.confidence, "rationale", "checker_model">>)

\* The assignments of the except block, e being the error text.
AnnotateError(f, e) ==
  SetAttrs(f, ValidationAttrs,
           <<TRUE, "Needs Review", "Low", "Validation error: " \o e,
             "checker_model">>)

\* Variant: the pass walks the list from its end.
CallRecordFromEnd(fl, i, codes) ==
  [idx |-> Len(fl) + 1 - i, code |-> OriginalCode(fl[Len(fl) + 1 - i], Len(fl) - i, codes)]

\* The validate_finding call for position i (1-based) of list fl is sent.
CallRecord(fl, i, codes) ==
  [idx |-> i, code |-> OriginalCode(fl[i], i - 1, codes)]

\* What follows the annotation of the current finding, res being the
\* outcome of the last run of assignments: an assignment that raised leaves
\* _validate_findings and analyze(); otherwise the finding is appended and
\* the loop sends the next call or returns, and analyze() builds the report.
AfterAnnotation(res, last) ==
  /\ all_findings' = [all_findings EXCEPT ![vidx] = res.f]
  /\ vattempts' = IF res.ok /\ vidx < Len(all_findings) THEN 1 ELSE vattempts
  /\ vlastresp' = IF res.ok /\ vidx < Len(all_findings) THEN NoResponse ELSE last
  /\ vresult' = NoVerdict
  /\ IF ~res.ok
     THEN /\ pc' = "raised"
          /\ exc' = "ValueError"
          /\ vpc' = "idle"
          /\ UNCHANGED <<vidx, vcalls, validated_findings, report>>
     ELSE /\ validated_findings' = Append(validated_findings, res.f)
          /\ exc' = exc
          /\ IF vidx < Len(all_findings)
             THEN /\ vidx' = vidx + 1
                  /\ vpc' = "request"
                  /\ vcalls' = Append(vcalls,
                                      CallRecord(all_findings, vidx + 1, batch_codes))
                  /\ UNCHANGED <<pc, report>>
             ELSE /\ vpc' = "idle"
                  /\ pc' = "done"
                  /\ report' = MakeReport(Append(validated_findings, res.f))
                  /\ UNCHANGED <<vidx, vcalls>>

\* collect_files returned no file: analyze() returns a ReportData with an
\* empty finding list at once.
NoFiles ==
  /\ pc = "collected"
  /\ nbatches = 0
  /\ pc' = "done"
  /\ report' = ReportData(AppName, <<>>)
  /\ UNCHANGED <<callvars, cfgvars, exc, taskvars, batch_codes, all_findings,
                 valvars>>

\* Variant: the wait is over with the first task that resolved.
GatherReturnsOnFirst == \E b \in Batches : tpc[b] = "resolved"

\* await asyncio.gather(*tasks, return_exceptions=True) returns when every
\* task has resolved.
GatherReturns == \A b \in Batches : tpc[b] = "resolved"

\* gather has every result: the results are merged, then either the
\* validation pass starts with the first finding or the report is built.
GatherDone ==
  /\ pc = "gather"
  /\ GatherReturns
  /\ LET af == MergeResults(results)
     IN /\ all_findings' = af
        /\ IF enable_checker /\ af # <<>>
           THEN /\ pc' = "validate"
                /\ given' = af
                /\ vidx' = 1
                /\ vpc' = "request"
                /\ vattempts' = 1
                /\ vcalls' = <<CallRecord(af, 1, batch_codes)>>
                /\ UNCHANGED report
           ELSE /\ pc' = "done"
                /\ report' = MakeReport(af)
                /\ UNCHANGED <<given, vidx, vpc, vattempts, vcalls>>
  /\ UNCHANGED <<callvars, cfgvars, exc, taskvars, batch_codes, vlastresp, vresult,
                 vfailed, validated_findings, vslept>>

\* validate_finding returns v after sleeping t in apply_rate_limit: the try
\* block annotates the finding; an exception raised there runs the except
\* block.
ValidateFindingReturns(v, t) ==
  /\ vslept' = vslept + t
  /\ LET r1 == AnnotateResult(all_findings[vidx], v)
     IN IF r1.ok
        THEN AfterAnnotation(r1, NoResponse)
        ELSE AfterAnnotation(AnnotateError(r1.f, "ValueError"), NoResponse)

\* The response to the validate_finding request in flight arrives.
ValidateResponse(r) ==
  /\ pc = "validate"
  /\ vpc = "request"
  /\ LET o == ValidateAttempt(r)
         d == RetryDecision(o.exc, vattempts)
     IN CASE d = "return" ->
               IF ApplyRateLimit(rate_limit_delay) > 0
               THEN /\ vpc' = "ratelimit"
                    /\ vresult' = o
                    /\ UNCHANGED <<pc, exc, all_findings, report, vidx, vattempts,
                                   vlastresp, vcalls, vfailed, validated_findings,
                                   vslept>>
               ELSE ValidateFindingReturns(o, 0) /\ UNCHANGED vfailed
          [] d = "sleep" ->
               /\ vpc' = "backoff"
               /\ vlastresp' = r
               /\ UNCHANGED <<pc, exc, all_findings, report, vidx, vattempts,
                              vresult, vcalls, vfailed, validated_findings, vslept>>
          [] OTHER ->
               /\ vfailed' = vfailed \cup {vidx}
               /\ vslept' = vslept
               /\ AfterAnnotation(AnnotateError(all_findings[vidx],
                                                RaisedBy(o.exc, vattempts)), r)
  /\ UNCHANGED <<callvars, cfgvars, taskvars, batch_codes, given>>

\* The backoff sleep of the validate_finding call ends.
ValidateRetry ==
  /\ pc = "validate"
  /\ vpc = "backoff"
  /\ vpc' = "request"
  /\ vattempts' = vattempts + 1
  /\ vlastresp' = NoResponse
  /\ UNCHANGED <<callvars, cfgvars, pc, exc, taskvars, batch_codes, all_findings, report,
                 vidx, vresult, vcalls, vfailed, given, validated_findings, vslept>>

\* The rate-limit sleep of the validate_finding call ends.
ValidateReturn ==
  /\ pc = "validate"
  /\ vpc = "ratelimit"
  /\ ValidateFindingReturns(vresult, ApplyRateLimit(rate_limit_delay))
  /\ UNCHANGED <<callvars, cfgvars, taskvars, batch_codes, vfailed, given>>

Next ==
  \/ Construct
  \/ CollectAndBatch
  \/ NoFiles
  \/ \E b \in Batches : StartBatch(b)
  \/ \E b \in Batches : \E r \in MakerResponses : AttemptResponse(b, r)
  \/ \E b \in Batches : RetryAttempt(b)
  \/ \E b \in Batches : ReturnFindings(b)
  \/ GatherDone
  \/ \E r \in CheckerResponses : ValidateResponse(r)
  \/ ValidateRetry
  \/ ValidateReturn

Spec == Init /\ [][Next]_vars

\* ================================================== calls followed alone
\* ------------------------------------------------------------ ScanConfig
\* The size fields of ScanConfig with their defaults; each is at least 1024.
DefaultScanConfig ==
  [max_file_size |-> 1048576, chunk_size |-> 51200, batch_size |-> 102400]

\* ---------------------------------------------- FileCollector.create_batches
MaxFiles == 4        \* longest file list given to create_batches

FileSizes == {0, 1000, 1048, 3000}
BatchSizes == {2048, 4096}

\* Lists of (file_path, file_size) tuples, the paths distinct.
FileLists ==
  UNION { { [i \in 1..n |-> [path |-> "f" \o ToString(i), size |-> sz[i]]] :
              sz \in [1..n -> FileSizes] } : n \in 0..MaxFiles }

\* sorted(files, key=lambda x: x[1]): ascending by size, files of equal size
\* keep their order.
RECURSIVE InsertBySize(_, _)
InsertBySize(sorted, f) ==
  IF sorted = <<>> THEN <<f>>
  ELSE IF Head(sorted).size <= f.size
  THEN <<Head(sorted)>> \o InsertBySize(Tail(sorted), f)
  ELSE <<f>> \o sorted

\* Variant: the files are taken in the order given.
SortedBySizeAsGiven(files) == files

RECURSIVE SortedBySize(_)
SortedBySize(files) ==
  IF files = <<>> THEN <<>>
  ELSE InsertBySize(SortedBySize(SubSeq(files, 1, Len(files) - 1)),
                    files[Len(files)])

\* Variant: the test looks at the size reached, not at the size the batch
\* would have with the file.
BatchFullAfter(current_size, file_size, batch_size, current_batch) ==
  current_size > batch_size /\ current_batch # <<>>

\* if current_size + file_size > self.config.batch_size and current_batch
BatchFull(current_size, file_size, batch_size, current_batch) ==
  current_size + file_size > batch_size /\ current_batch # <<>>

\* The loop over sorted_files and the final "add remaining files".
RECURSIVE BatchLoop(_, _, _, _, _)
BatchLoop(rest, batches, current_batch, current_size, batch_size) ==
  IF rest = <<>>
  THEN IF current_batch # <<>> THEN Append(batches, current_batch) ELSE batches
  ELSE LET f == Head(rest)
           full == BatchFull(current_size, f.size, batch_size, current_batch)
       IN BatchLoop(Tail(rest),
                    IF full THEN Append(batches, current_batch) ELSE batches,
                    Append(IF full THEN <<>> ELSE current_batch, f.path),
                    (IF full THEN 0 ELSE current_size) + f.size,
                    batch_size)

CreateBatches(files, batch_size) ==
  BatchLoop(SortedBySize(files), <<>>, <<>>, 0, batch_size)

\* create_batches(files) is called and returns.
CallCreateBatches ==
  /\ cpc = "call"
  /\ method = "create_batches"
  /\ ret' = [exc |-> "none",
             value |-> CreateBatches(args.files, self.config.batch_size)]
  /\ cpc' = "return"
  /\ UNCHANGED <<method, self, args, locals, pipevars>>

\* ------------------------------------------ FileCollector.read_file_chunked
MaxLines == 4        \* largest number of lines of a file that is read

\* Lines as stored in a file: a name standing for the characters, the length
\* in bytes, and how many of the bytes are not valid UTF-8.
StoredLines ==
  { [id |-> "a", bytes |-> 400, invalid |-> 0],
    [id |-> "b", bytes |-> 624, invalid |-> 0],
    [id |-> "c", bytes |-> 1030, invalid |-> 6],
    [id |-> "d", bytes |-> 3000, invalid |-> 0] }
ChunkSizes == {1024, 2048}

\* Files given to read_file_chunked: one that cannot be opened, and every
\* sequence of at most MaxLines stored lines.
ReadableFiles ==
  UNION { { [readable |-> TRUE, lines |-> c] : c \in [1..n -> StoredLines] } :
            n \in 0..MaxLines }
UnreadableFile == [readable |-> FALSE, lines |-> <<>>]

\* open(file_path, 'r', encoding='utf-8', errors='ignore'): a line comes out
\* decoded, its undecodable bytes dropped; size is len(line.encode('utf-8')).
DecodedLine(l) == [text |-> l.id \o "\n", size |-> l.bytes - l.invalid]
DecodedLines(file) == [i \in 1..Len(file.lines) |-> DecodedLine(file.lines[i])]

\* ''.join(lines)
RECURSIVE Join(_)
Join(lines) == IF lines = <<>> THEN "" ELSE Head(lines).text \o Join(Tail(lines))

\* Variant: every chunk is recorded as starting at line 1.
ChunkAtLineOne(current_chunk, chunk_start_line) ==
  [content |-> Join(current_chunk), start_line |-> 1, lines |-> current_chunk]

\* (''.join(current_chunk), chunk_start_line); "lines" keeps the lines joined.
Chunk(current_chunk, chunk_start_line) ==
  [content |-> Join(current_chunk), start_line |-> chunk_start_line,
   lines |-> current_chunk]

\* Variant: a chunk is closed as soon as the limit is reached.
ChunkFullAtLimit(current_size, line_size, chunk_size, current_chunk) ==
  current_size + line_size >= chunk_size /\ current_chunk # <<>>

\* if current_size + line_size > self.config.chunk_size and current_chunk
ChunkFull(current_size, line_size, chunk_size, current_chunk) ==
  current_size + line_size > chunk_size /\ current_chunk # <<>>

\* Variant: the content left after the last line is not added.
AddRemainingForgotten(chunks, current_chunk, chunk_start_line) == chunks

\* "Add remaining content" after the loop.
AddRemaining(chunks, current_chunk, chunk_start_line) ==
  IF current_chunk # <<>>
  THEN Append(chunks, Chunk(current_chunk, chunk_start_line))
  ELSE chunks

\* The loop over the lines of the file.
RECURSIVE ChunkLoop(_, _, _, _, _, _, _)
ChunkLoop(rest, chunks, current_chunk, current_size, line_number, chunk_start_line, chunk_size) ==
  IF rest = <<>>
  THEN AddRemaining(chunks, current_chunk, chunk_start_line)
  ELSE LET line == Head(rest)
           full == ChunkFull(current_size, line.size, chunk_size, current_chunk)
       IN ChunkLoop(Tail(rest),
                    IF full
                    THEN Append(chunks, Chunk(current_chunk, chunk_start_line))
                    ELSE chunks,
                    Append(IF full THEN <<>> ELSE current_chunk, line),
                    (IF full THEN 0 ELSE current_size) + line.size,
                    line_number + 1,
                    IF full THEN line_number ELSE chunk_start_line,
                    chunk_size)

\* An exception while opening or reading is caught and gives [].
ReadFileChunked(file, chunk_size) ==
  IF ~file.readable THEN <<>>
  ELSE ChunkLoop(DecodedLines(file), <<>>, <<>>, 0, 1, 1, chunk_size)

\* read_file_chunked(file_path) is called and returns.
CallReadFileChunked ==
  /\ cpc = "call"
  /\ method = "read_file_chunked"
  /\ ret' = [exc |-> "none",
             value |-> ReadFileChunked(args.file, self.config.chunk_size)]
  /\ cpc' = "return"
  /\ UNCHANGED <<method, self, args, locals, pipevars>>


\* ----------------------------------------------- FileCollector.collect_files
MaxTreeFiles == 3    \* largest number of entries of a scanned directory tree

\* ScanConfig.supported_extensions and ScanConfig.exclude_patterns (defaults)
SupportedExtensions ==
  {".py", ".js", ".jsx", ".ts", ".tsx", ".java", ".go", ".rb", ".php", ".cs",
   ".cpp", ".c", ".h", ".hpp"}
ExcludePatterns ==
  <<".git", "__pycache__", "node_modules", ".venv", "venv", "*.min.js",
    "*.min.css", ".pyc">>
MaxFileSizes == {1048576, 4194304}

\* str.startswith, str.endswith, the "in" test on strings, str.lower
StartsWith(s, p) == Len(p) <= Len(s) /\ SubSeq(s, 1, Len(p)) = p
EndsWith(s, p) == Len(p) <= Len(s) /\ SubSeq(s, Len(s) - Len(p) + 1, Len(s)) = p
Contains(s, p) ==
  \E i \in 1..(Len(s) - Len(p) + 1) : SubSeq(s, i, i + Len(p) - 1) = p
\* PurePath.suffix: the name from its last dot on, unless that dot is the
\* first or the last character.
Suffix(name) ==
  LET dots == { i \in 1..Len(name) : SubSeq(name, i, i) = "." }
  IN IF dots = {} THEN ""
     ELSE LET i == CHOOSE i \in dots : \A j \in dots : j <= i
          IN IF 1 < i /\ i < Len(name) THEN SubSeq(name, i, Len(name)) ELSE ""

\* One pattern of _is_excluded against a file or directory name.
MatchesPattern(name, pattern) ==
  IF StartsWith(pattern, "*")
  THEN EndsWith(name, SubSeq(pattern, 2, Len(pattern)))
  ELSE IF EndsWith(pattern, "*")
  THEN StartsWith(name, SubSeq(pattern, 1, Len(pattern) - 1))
  ELSE Contains(name, pattern) \/ name = pattern

IsExcluded(name) ==
  \E k \in 1..Len(ExcludePatterns) : MatchesPattern(name, ExcludePatterns[k])

\* Non-directory entries a scanned tree can hold, in the order os.walk
\* lists them: the directories from the root down to the entry, its name,
\* st_size, and whether it is a regular file.
TreeEntries ==
  << [dirs |-> <<>>, name |-> "app.py", size |-> 500, regular |-> TRUE],
     [dirs |-> <<>>, name |-> "big.py", size |-> 2097152, regular |-> TRUE],
     [dirs |-> <<>>, name |-> "lib.min.js", size |-> 800, regular |-> TRUE],
     [dirs |-> <<>>, name |-> "README.md", size |-> 100, regular |-> TRUE],
     [dirs |-> <<>>, name |-> "Main.JAVA", size |-> 300, regular |-> TRUE],
     [dirs |-> <<>>, name |-> "sock.py", size |-> 0, regular |-> FALSE],
     [dirs |-> <<"node_modules">>, name |-> "dep.js", size |-> 200,
      regular |-> TRUE],
     [dirs |-> <<"src">>, name |-> "edge.ts", size |-> 1048576,
      regular |-> TRUE],
     [dirs |-> <<"src", "myvenv">>, name |-> "x.py", size |-> 10,
      regular |-> TRUE] >>

\* What input_path can name: nothing, one non-directory entry, or a
\* directory holding some of the entries.
Roots ==
  { [kind |-> "missing", entry |-> TreeEntries[1], tree |-> {}] }
  \cup { [kind |-> "file", entry |-> [TreeEntries[i] EXCEPT !.dirs = <<>>],
           tree |-> {}] : i \in 1..Len(TreeEntries) }
  \cup { [kind |-> "dir", entry |-> TreeEntries[1], tree |-> t] :
           t \in { t \in SUBSET (1..Len(TreeEntries)) :
                     Cardinality(t) <= MaxTreeFiles } }

\* Path(root) / filename, written relative to the root.
RECURSIVE PathOf(_, _)
PathOf(dirs, name) ==
  IF dirs = <<>> THEN name ELSE Head(dirs) \o "/" \o PathOf(Tail(dirs), name)

IsEligibleFile(e) ==
  /\ ~IsExcluded(e.name)
  /\ Lower(Suffix(e.name)) \in SupportedExtensions
  /\ e.regular

\* Variant: os.walk without pruning lists every entry of the tree.
WalkUnpruned(tree) ==
  SelectSeq([i \in 1..Len(TreeEntries) |-> TreeEntries[i]],
            LAMBDA e : \E i \in tree : TreeEntries[i] = e)

\* os.walk with dirs[:] pruned: the entries listed are those with no
\* excluded directory on the way from the root.
Walk(tree) ==
  SelectSeq([i \in 1..Len(TreeEntries) |-> TreeEntries[i]],
            LAMBDA e :
              /\ \E i \in tree : TreeEntries[i] = e
              /\ \A k \in 1..Len(e.dirs) : ~IsExcluded(e.dirs[k]))

CollectFiles(root, max_file_size) ==
  IF root.kind = "missing"
  THEN [exc |-> "ValueError", value |-> <<>>]
  ELSE IF root.kind = "file" /\ root.entry.regular
  THEN [exc |-> "none",
        value |-> IF IsEligibleFile(root.entry)
                  THEN <<[path |-> root.entry.name, size |-> root.entry.size]>>
                  ELSE <<>>]
  ELSE LET kept == SelectSeq(Walk(root.tree),
                             LAMBDA e : IsEligibleFile(e)
                                        /\ e.size <= max_file_size)
       IN [exc |-> "none",
           value |-> [k \in 1..Len(kept) |->
                        [path |-> PathOf(kept[k].dirs, kept[k].name),
                         size |-> kept[k].size]]]

\* collect_files() is called and returns or raises.
CallCollectFiles ==
  /\ cpc = "call"
  /\ method = "collect_files"
  /\ ret' = CollectFiles(args.root, self.config.max_file_size)
  /\ cpc' = "return"
  /\ UNCHANGED <<method, self, args, locals, pipevars>>


\* ----------------------------------- OpenRouterProvider._attempt_json_repair
\* str.count(sub) for a sub that cannot overlap itself (one character, or
\* a backslash followed by a quote): the positions where sub starts.
CountSub(s, sub) ==
  Cardinality({ i \in 1..(Len(s) - Len(sub) + 1) :
                  SubSeq(s, i, i + Len(sub) - 1) = sub })

\* c * n for a string c: empty when n <= 0.
RECURSIVE Repeat(_, _)
Repeat(c, n) == IF n <= 0 THEN "" ELSE c \o Repeat(c, n - 1)

AttemptJsonRepair(content) ==
  LET open_braces == CountSub(content, "{")
      close_braces == CountSub(content, "}")
      open_brackets == CountSub(content, "[")
      close_brackets == CountSub(content, "]")
      quote_count == CountSub(content, "\"") - CountSub(content, "\\\"")
      repaired == IF quote_count % 2 # 0 THEN content \o "\"" ELSE content
  IN repaired \o Repeat("]", open_brackets - close_brackets)
              \o Repeat("}", open_braces - close_braces)

\* json.loads on a text made of objects, arrays, strings, unsigned integers
\* and blanks, read one character at a time. The scan keeps the open
\* containers (innermost first) and what may come next.

\* A character str.strip() removes and json.loads skips.
IsBlank(c) == c \in {" ", "\n", "\t"}
IsDigit(c) == \E i \in 1..10 : SubSeq("0123456789", i, i) = c

\* One character c read in a given state: how far the scan advances, the
\* open containers and what may come next ("error": another character is
\* expected here, "extra_data": the value is complete and text follows).
JsonStep(c, stack, mode) ==
  LET to(n, st, m) == [adv |-> n, stack |-> st, mode |-> m]
      error == to(1, stack, "error")
  IN IF mode \in {"str_key", "str_val"}
     THEN IF c = "\\" THEN to(2, stack, mode)
          ELSE IF c = "\""
          THEN to(1, stack, IF mode = "str_key" THEN "colon" ELSE "after")
          ELSE to(1, stack, mode)
     ELSE IF mode = "num"
     THEN IF IsDigit(c) THEN to(1, stack, "num") ELSE to(0, stack, "after")
     ELSE IF IsBlank(c) THEN to(1, stack, mode)
     ELSE IF mode \in {"value", "first"}
     THEN IF c = "{" THEN to(1, <<"{">> \o stack, "key_first")
          ELSE IF c = "[" THEN to(1, <<"[">> \o stack, "first")
          ELSE IF c = "\"" THEN to(1, stack, "str_val")
          ELSE IF IsDigit(c) THEN to(1, stack, "num")
          ELSE IF c = "]" /\ mode = "first" THEN to(1, Tail(stack), "after")
          ELSE error
     ELSE IF mode \in {"key_first", "key"}
     THEN IF c = "\"" THEN to(1, stack, "str_key")
          ELSE IF c = "}" /\ mode = "key_first" THEN to(1, Tail(stack), "after")
          ELSE error
     ELSE IF mode = "colon"
     THEN IF c = ":" THEN to(1, stack, "value") ELSE error
     ELSE IF stack = <<>> THEN to(1, stack, "extra_data")
     ELSE IF c = ","
     THEN to(1, stack, IF Head(stack) = "{" THEN "key" ELSE "value")
     ELSE IF (c = "}" /\ Head(stack) = "{") \/ (c = "]" /\ Head(stack) = "[")
     THEN to(1, Tail(stack), "after")
     ELSE error

\* Responses in the format the prompt asks for.
FindingsDocuments ==
  { "{\"findings\":[]}",
    "{\"findings\":[{\"title\":\"A\",\"severity\":\"Low\",\"description\":\"d\",\"remediation\":\"r\"}]}",
    "{\"findings\": [{\"title\":\"A\",\"severity\":\"High\",\"evidence\":[{\"file_path\":\"a.py\",\"line_number\":4,\"code\":\"c\"}],\"description\":\"d\",\"remediation\":\"r\"}]}" }

\* A response cut short: the document without its last K characters, the
\* cut lying outside every string literal (the documents hold no escaped
\* quote, so that is an even number of quotes before the cut).
Truncations ==
  UNION { { [document |-> d, K |-> k, content |-> SubSeq(d, 1, Len(d) - k),
              raise_on_error |-> TRUE] :
              k \in { k \in 1..(Len(d) - 1) :
                        CountSub(SubSeq(d, 1, Len(d) - k), "\"") % 2 = 0 } } :
          d \in FindingsDocuments }

\* ------------------------- OpenRouterProvider._parse_findings: the text
\* str.strip()
Strip(s) ==
  LET solid == { i \in 1..Len(s) : ~IsBlank(SubSeq(s, i, i)) }
  IN IF solid = {} THEN ""
     ELSE SubSeq(s, CHOOSE i \in solid : \A j \in solid : i <= j,
                    CHOOSE i \in solid : \A j \in solid : j <= i)

\* The code fence of markdown: three backquotes, which a string of this
\* language cannot hold and which are written as three single quotes here.
Fence == "'''"

\* "Clean up markdown code blocks if present"
StripFence(content) ==
  LET c0 == Strip(content)
      c1 == IF StartsWith(c0, Fence \o "json")
            THEN SubSeq(c0, 8, Len(c0)) ELSE c0
      c2 == IF StartsWith(c1, Fence) THEN SubSeq(c1, 4, Len(c1)) ELSE c1
      c3 == IF EndsWith(c2, Fence) THEN SubSeq(c2, 1, Len(c2) - 3) ELSE c2
  IN Strip(c3)

\* re.search of an opening brace, the key "findings" and a closing brace
\* with anything between them (re.DOTALL): the match starts at
\* the first "{" that has the key after it and a "}" after the key, and it
\* ends at the last "}" of the text.
RegexFindings(s) ==
  LET key == "\"findings\""
      closes == { k \in 1..Len(s) : SubSeq(s, k, k) = "}" }
      starts == { i \in 1..Len(s) :
                    /\ SubSeq(s, i, i) = "{"
                    /\ \E j \in (i + 1)..(Len(s) - Len(key) + 1) :
                         /\ SubSeq(s, j, j + Len(key) - 1) = key
                         /\ \E k \in closes : k >= j + Len(key) }
  IN IF starts = {} THEN [found |-> FALSE, text |-> ""]
     ELSE [found |-> TRUE,
           text |-> SubSeq(s, CHOOSE i \in starts : \A j \in starts : i <= j,
                              CHOOSE k \in closes : \A j \in closes : j <= k)]

\* The text handed to json.loads, if any.
ExtractJson(content) ==
  LET c == StripFence(content)
  IN IF StartsWith(c, "{") THEN [found |-> TRUE, text |-> c]
     ELSE RegexFindings(c)

\* Leaving on an error: JSONParseError when raise_on_error, else [].
RaiseOrEmpty(raise_on_error) ==
  IF raise_on_error THEN [exc |-> "JSONParseError", value |-> <<>>]
  ELSE [exc |-> "none", value |-> <<>>]

\* json.loads starts on a text.
ScanStart(text, repaired) ==
  [text |-> text, pos |-> 1, stack |-> <<>>, mode |-> "value",
   repaired |-> repaired]

\* The scan is over: the end of the text is reached or a character fits not.
ScanOver(l) == l.pos > Len(l.text) \/ l.mode \in {"error", "extra_data"}
ScanValid(l) ==
  l.pos > Len(l.text) /\ l.stack = <<>> /\ l.mode \in {"after", "num"}

\* Legible responses: a bare document, a fenced one, one inside prose, one
\* after prose that has braces of its own, a fenced one followed by prose,
\* and prose alone.
WholeResponses ==
  { [document |-> d, K |-> 0, content |-> d, raise_on_error |-> TRUE] :
      d \in FindingsDocuments }
  \cup { [document |-> "{\"findings\":[]}", K |-> 0, content |-> c,
          raise_on_error |-> TRUE] :
           c \in { Fence \o "json\n{\"findings\":[]}\n" \o Fence,
                   "Here it is: {\"findings\":[]} Done.",
                   "See {x}: {\"findings\":[]}",
                   Fence \o "json\n{\"findings\":[]}\n" \o Fence \o "\nDone.",
                   "No issue found." } }

\* _parse_findings(content, raise_on_error) is called: the text is cleaned
\* and json.loads starts on it, or no JSON structure is found.
ParseFindingsCall ==
  /\ cpc = "call"
  /\ method = "_parse_findings"
  /\ LET x == ExtractJson(args.content)
     IN /\ locals' = ScanStart(x.text, FALSE)
        /\ IF x.found
           THEN cpc' = "loads" /\ UNCHANGED ret
           ELSE cpc' = "return" /\ ret' = RaiseOrEmpty(args.raise_on_error)
  /\ UNCHANGED <<method, self, args, pipevars>>

\* json.loads reads on.
JsonLoadsStep ==
  /\ cpc = "loads"
  /\ ~ScanOver(locals)
  /\ LET n == JsonStep(SubSeq(locals.text, locals.pos, locals.pos),
                       locals.stack, locals.mode)
     IN locals' = [locals EXCEPT !.pos = @ + n.adv, !.stack = n.stack,
                                 !.mode = n.mode]
  /\ UNCHANGED <<method, self, args, ret, cpc, pipevars>>

\* json.loads ends: data is there, or JSONDecodeError is raised; a first
\* error whose message has "Unterminated string" or "Expecting" gets the
\* repair and a second json.loads, any other error leaves the method.
JsonLoadsEnd ==
  /\ cpc = "loads"
  /\ ScanOver(locals)
  /\ IF ScanValid(locals)
     THEN cpc' = "decoded" /\ UNCHANGED <<locals, ret>>
     ELSE IF ~locals.repaired /\ locals.mode # "extra_data"
     THEN /\ locals' = ScanStart(AttemptJsonRepair(locals.text), TRUE)
          /\ UNCHANGED <<cpc, ret>>
     ELSE /\ cpc' = "return"
          /\ ret' = RaiseOrEmpty(args.raise_on_error)
          /\ UNCHANGED locals
  /\ UNCHANGED <<method, self, args, pipevars>>


\* ------------------- OpenRouterProvider._parse_findings: the decoded data
MaxItems == 2        \* longest "findings" list of a decoded response
MaxEvidence == 3     \* longest "evidence" list of one finding

\* Entries an "evidence" list can hold: a full one, one whose line number is
\* a numeric string, one without "code", and a bare string.
RawEvidences ==
  LET full == [kind |-> "dict", file_path |-> JStr("a.py"),
               line_number |-> JInt("4"), code |-> JStr("eval(x)"),
               description |-> JAbsent]
  IN { full,
       [full EXCEPT !.file_path = JStr("b.py"), !.line_number = JStr("7"),
                    !.code = JStr("exec(y)"), !.description = JNull],
       [full EXCEPT !.file_path = JStr("c.py"), !.code = JAbsent],
       [full EXCEPT !.kind = "str", !.file_path = JAbsent,
                    !.line_number = JAbsent, !.code = JAbsent] }

\* What "evidence" can be in a finding: no key, null, or a list of entries.
EvidenceValues ==
  { [t |-> "absent", items |-> <<>>], [t |-> "null", items |-> <<>>] }
  \cup { [t |-> "list", items |-> l] :
           l \in UNION { [1..n -> RawEvidences] : n \in 0..MaxEvidence } }

\* Items a "findings" list can hold, without evidence: two complete ones,
\* one for each required field that is missing, one with a severity outside
\* the Literal, one with a numeric cvss_score, and a bare string.
RawFindings ==
  LET full == [kind |-> "dict", title |-> JStr("A"), severity |-> JStr("High"),
               description |-> JStr("d"), remediation |-> JStr("r"),
               evidence |-> [t |-> "absent", items |-> <<>>],
               cvss_score |-> JAbsent, impact |-> JAbsent,
               attack_scenario |-> JAbsent, references |-> JAbsent]
  IN { full,
       [full EXCEPT !.title = JStr("B"), !.severity = JStr("Informational"),
                    !.cvss_score = JStr("9.8"), !.impact = JNull],
       [full EXCEPT !.title = JAbsent],
       [full EXCEPT !.title = JStr("C"), !.severity = JAbsent],
       [full EXCEPT !.title = JStr("D"), !.description = JAbsent],
       [full EXCEPT !.title = JStr("E"), !.remediation = JAbsent],
       [full EXCEPT !.title = JStr("F"), !.severity = JStr("Severe")],
       [full EXCEPT !.title = JStr("G"), !.cvss_score = JInt("9")],
       [full EXCEPT !.kind = "str", !.title = JAbsent, !.severity = JAbsent,
                    !.description = JAbsent, !.remediation = JAbsent] }

\* The decoded responses: "findings" is a list of items, one of which may
\* carry evidence, or "findings" is no key of the object, or it is a string.
DecodedData ==
  LET plain == UNION { [1..n -> RawFindings] : n \in 0..MaxItems }
      put(fl, i, ev) ==
        IF i \in DOMAIN fl /\ fl[i].title = JStr("A")
        THEN [fl EXCEPT ![i].evidence = ev] ELSE fl
  IN { [findings |-> [t |-> "list", items |-> put(fl, i, ev)]] :
         fl \in plain, i \in 1..MaxItems, ev \in EvidenceValues }
     \cup { [findings |-> [t |-> "absent", items |-> <<>>]],
            [findings |-> [t |-> "str", items |-> <<>>]] }

\* pydantic validation of one input against a declared field type
\* (str; Optional[str] = None; Optional[int] = None, where a string of
\* digits is taken as the int it spells).
ValidStr(v) == v.t = "str"
ValidOptStr(v) == v.t \in {"str", "null", "absent"}
ValidOptInt(v) ==
  \/ v.t \in {"int", "null", "absent"}
  \/ v.t = "str" /\ v.s # "" /\ \A i \in 1..Len(v.s) : IsDigit(SubSeq(v.s, i, i))

\* dict.get(key) and an Optional field left out: None.
OptValue(v) == IF v.t = "absent" THEN JNull ELSE v

\* Evidence(**ev) raises for an ev that is no dict and for a field that
\* fails its validation.
ValidEvidence(ev) ==
  /\ ev.kind = "dict"
  /\ ValidStr(ev.file_path)
  /\ ValidOptInt(ev.line_number)
  /\ ValidStr(ev.code)
  /\ ValidOptStr(ev.description)

\* The Evidence object built from a valid ev.
MakeEvidence(ev) ==
  [file_path |-> ev.file_path.s,
   line_number |-> IF ev.line_number.t = "str" THEN JInt(ev.line_number.s)
                   ELSE OptValue(ev.line_number),
   code |-> ev.code.s,
   description |-> OptValue(ev.description)]

\* The loop over the evidence entries with its own try/except.
RECURSIVE EvidenceLoopStopAtInvalid(_)
EvidenceLoopStopAtInvalid(evs) ==
  IF evs = <<>> \/ ~ValidEvidence(Head(evs)) THEN <<>>
  ELSE <<MakeEvidence(Head(evs))>> \o EvidenceLoopStopAtInvalid(Tail(evs))

RECURSIVE EvidenceLoop(_)
EvidenceLoop(evs) ==
  IF evs = <<>> THEN <<>>
  ELSE (IF ValidEvidence(Head(evs)) THEN <<MakeEvidence(Head(evs))>> ELSE <<>>)
       \o EvidenceLoop(Tail(evs))

\* required_fields and the fields of them missing in an item.
RequiredFields == <<"title", "severity", "description", "remediation">>
MissingFields(finding_data) ==
  SelectSeq(RequiredFields, LAMBDA f : finding_data[f].t = "absent")

\* Finding(...) raises for a field that fails its validation.
Severities == {"Critical", "High", "Medium", "Low", "Informational"}
ValidFinding(finding_data) ==
  /\ finding_data.kind = "dict"
  /\ ValidStr(finding_data.title)
  /\ ValidStr(finding_data.severity) /\ finding_data.severity.s \in Severities
  /\ ValidStr(finding_data.description)
  /\ finding_data.evidence.t \in {"absent", "list"}
  /\ ValidStr(finding_data.remediation)
  /\ ValidOptStr(finding_data.cvss_score)
  /\ ValidOptStr(finding_data.impact)
  /\ ValidOptStr(finding_data.attack_scenario)
  /\ finding_data.references.t \in {"list", "null", "absent"}

\* The body of the loop for one item: the Finding appended, if any. An item
\* that is no dict or misses a required field is skipped; iterating over a
\* null "evidence" and a failed validation raise inside the try.
MakeFinding(finding_data) ==
  IF finding_data.kind # "dict" \/ MissingFields(finding_data) # <<>>
  THEN <<>>
  ELSE IF finding_data.evidence.t = "null" \/ ~ValidFinding(finding_data)
  THEN <<>>
  ELSE << [title |-> finding_data.title.s,
           severity |-> finding_data.severity.s,
           description |-> finding_data.description.s,
           evidence |-> EvidenceLoop(finding_data.evidence.items),
           remediation |-> finding_data.remediation.s,
           cvss_score |-> OptValue(finding_data.cvss_score),
           impact |-> OptValue(finding_data.impact),
           attack_scenario |-> OptValue(finding_data.attack_scenario),
           references |-> OptValue(finding_data.references)] >>

\* The loop over findings_data.
RECURSIVE FindingsLoopStopAtIncomplete(_)
FindingsLoopStopAtIncomplete(findings_data) ==
  IF findings_data = <<>> \/ MissingFields(Head(findings_data)) # <<>>
  THEN <<>>
  ELSE MakeFinding(Head(findings_data))
       \o FindingsLoopStopAtIncomplete(Tail(findings_data))

RECURSIVE FindingsLoop(_)
FindingsLoop(findings_data) ==
  IF findings_data = <<>> THEN <<>>
  ELSE MakeFinding(Head(findings_data)) \o FindingsLoop(Tail(findings_data))

\* _parse_findings from the decoded data on: data.get("findings", []), the
\* test that it is a list, the loop, the return.
ParseFindingsItems ==
  /\ cpc = "decoded"
  /\ "data" \in DOMAIN locals
  /\ LET got == locals.data.findings
         findings_data == IF got.t = "absent"
                          THEN [t |-> "list", items |-> <<>>] ELSE got
     IN ret' = IF findings_data.t # "list"
               THEN RaiseOrEmpty(args.raise_on_error)
               ELSE [exc |-> "none", value |-> FindingsLoop(findings_data.items)]
  /\ cpc' = "return"
  /\ UNCHANGED <<method, self, args, locals, pipevars>>


\* ------------------------------- ReportData.calculate_severity_stats
\* ReportData objects whose findings take every severity of the Literal.
Reports ==
  UNION { { ReportData(AppName,
              [i \in 1..n |-> [title |-> "T", severity |-> sv[i],
                               description |-> "d", evidence |-> <<>>,
                               remediation |-> "r"]]) :
              sv \in [1..n -> Severities] } : n \in 0..MaxReportFindings }

\* report.calculate_severity_stats() is called and returns None.
CallCalculateSeverityStats ==
  /\ cpc = "call"
  /\ method = "calculate_severity_stats"
  /\ self' = CalculateSeverityStats(self)
  /\ cpc' = "return"
  /\ UNCHANGED <<method, args, locals, ret, pipevars>>


\* -------------------------------------------------------- _process_batch
MaxBatchFiles == 2   \* largest number of files of a batch that is processed

\* scan_config.input_path as main() passes it on: the command-line argument,
\* absolute or relative to the working directory /work. A path is its anchor
\* and its parts.
InputPaths ==
  { [anchor |-> "/", parts |-> <<"work", "proj">>],
    [anchor |-> "", parts |-> <<"proj">>] }

\* The batches given to _process_batch: in directory mode up to
\* MaxBatchFiles files, the k-th one k levels below the root, in file mode
\* the root itself (rel is empty). A file cannot be read, is empty, has one
\* line, or has two lines that do not fit one chunk of 1024 bytes.
ProcessBatchInputs ==
  LET line(id) == CHOOSE l \in StoredLines : l.id = id
      contents == { UnreadableFile,
                    [readable |-> TRUE, lines |-> <<>>],
                    [readable |-> TRUE, lines |-> <<line("a")>>],
                    [readable |-> TRUE, lines |-> <<line("b"), line("c")>>] }
      rel(k) == [j \in 1..k |-> IF j = k THEN "f" \o ToString(k) \o ".py"
                                ELSE "d" \o ToString(j)]
  IN { [batch |-> [k \in 1..Len(c) |-> [rel |-> rel(k), file |-> c[k]]]] :
         c \in UNION { [1..n -> contents] : n \in 1..MaxBatchFiles } }
     \cup { [batch |-> <<[rel |-> <<>>, file |-> f]>>] : f \in contents }

\* str(file_path.relative_to(Path(input_path))) for a collected file:
\* file_path is Path(input_path).resolve() followed by rel; relative_to
\* raises ValueError unless both paths have the same anchor and the parts
\* of the second one start the first one's; the empty path prints as ".".
RelativePath(rel, input_path) ==
  LET resolved == IF input_path.anchor = "/" THEN input_path.parts
                  ELSE <<"work">> \o input_path.parts
      parts == resolved \o rel
      other == input_path.parts
      isprefix == /\ input_path.anchor = "/"
                  /\ Len(other) <= Len(parts)
                  /\ SubSeq(parts, 1, Len(other)) = other
      rest == SubSeq(parts, Len(other) + 1, Len(parts))
      str[i \in 0..Len(rest)] ==
        IF i = 0 THEN ""
        ELSE IF i = 1 THEN rest[1]
        ELSE str[i - 1] \o "/" \o rest[i]
  IN IF ~isprefix THEN [exc |-> "ValueError", str |-> ""]
     ELSE [exc |-> "none", str |-> IF rest = <<>> THEN "." ELSE str[Len(rest)]]

\* The loop of _process_batch over the files of the batch and the chunks of
\* each file: combined_code gets a marker and the chunk content per chunk;
\* relative_to is evaluated once per chunk, so a file without chunks never
\* makes it raise.
RECURSIVE CombinedCode(_, _, _, _)
CombinedCode(batch, input_path, chunk_size, combined_code) ==
  IF batch = <<>> THEN [exc |-> "none", combined_code |-> combined_code]
  ELSE LET chunks == ReadFileChunked(Head(batch).file, chunk_size)
           relative_path == RelativePath(Head(batch).rel, input_path)
           marker(c) == "\n# File: " \o relative_path.str
                          \o " (starting at line " \o ToString(c.start_line)
                          \o ")\n"
           added[i \in 0..Len(chunks)] ==
             IF i = 0 THEN combined_code
             ELSE added[i - 1] \o <<marker(chunks[i]), chunks[i].content>>
       IN IF chunks # <<>> /\ relative_path.exc # "none"
          THEN [exc |-> relative_path.exc, combined_code |-> <<>>]
          ELSE CombinedCode(Tail(batch), input_path, chunk_size,
                            added[Len(chunks)])

\* _process_batch(batch) is called and runs up to the call of
\* provider.analyze_code, which it makes with ''.join(combined_code) unless
\* combined_code is empty, or raises.
CallProcessBatch ==
  /\ cpc = "call"
  /\ method = "_process_batch"
  /\ LET r == CombinedCode(args.batch, self.input_path,
                           self.config.chunk_size, <<>>)
     IN /\ locals' = [combined_code |-> r.combined_code,
                      submitted |-> r.exc = "none" /\ r.combined_code # <<>>]
        /\ ret' = [exc |-> r.exc, value |-> <<>>]
  /\ cpc' = IF locals'.submitted THEN "analyze_code" ELSE "return"
  /\ UNCHANGED <<method, self, args, pipevars>>


\* ------------------------------------------- generate_executive_summary
\* What severity_stats of a ReportData can hold when a text is generated:
\* the empty dict it is constructed with, the counts of its findings after
\* calculate_severity_stats, or counts assigned or computed earlier.
PriorStats(rd) ==
  { rd.severity_stats,
    CalculateSeverityStats(rd).severity_stats,
    [k \in {"critical", "high", "medium", "low", "info"} |->
       IF k = "critical" THEN 1 ELSE 0] }

\* generate_executive_summary() or generate_conclusion() is called and sets
\* its field.
CallGenerateText ==
  /\ cpc = "call"
  /\ method \in {"generate_executive_summary", "generate_conclusion"}
  /\ self' = IF method = "generate_executive_summary"
             THEN GenerateExecutiveSummary(self)
             ELSE GenerateConclusion(self)
  /\ cpc' = "return"
  /\ UNCHANGED <<method, args, locals, ret, pipevars>>


\* ------------------------------------------------------------ scan summary
\* The summary lines click.echo prints in scan() and generate_text_report
\* appends to its lines, the same expressions in both places.
SummaryLines(report_data) ==
  << "Total Findings: " \o ToString(Len(report_data.findings)),
     "  Critical: " \o ToString(StatsGet(report_data, "Critical")),
     "  High: " \o ToString(StatsGet(report_data, "High")),
     "  Medium: " \o ToString(StatsGet(report_data, "Medium")),
     "  Low: " \o ToString(StatsGet(report_data, "Low")),
     "  Informational: " \o ToString(StatsGet(report_data, "Informational")) >>

\* scan() prints its summary of the report analyzer.run() returned, or
\* generate_text_report(report_data) builds its summary lines.
CallSummary ==
  /\ cpc = "call"
  /\ method \in {"scan", "generate_text_report"}
  /\ ret' = [exc |-> "none", value |-> SummaryLines(args.report_data)]
  /\ cpc' = "return"
  /\ UNCHANGED <<method, self, args, locals, pipevars>>



\* ------------------------------------------------------- custom provider
\* The default of the field ALLOWED_CUSTOM_DOMAINS.
ALLOWED_CUSTOM_DOMAINS ==
  { "api.openai.com", "openrouter.ai", "api.anthropic.com",
    "generativelanguage.googleapis.com", "localhost", "127.0.0.1" }

\* base_url = None: host and text stand for str(None).
NoUrl == [host |-> "None", text |-> "None"]

\* The keyword arguments of LLMConfig(...): base_url is passed (None or a
\* URL) or left out. Of a URL, host is HttpUrl.host and text is str(url),
\* which has no trailing slash for rstrip('/') to remove.
LLMConfigInputs ==
  LET BaseUrls ==
        { [host |-> "localhost", text |-> "http://localhost:8000/v1"],
          [host |-> "internal.example", text |-> "https://internal.example/v1"] }
  IN  { [provider |-> p] : p \in {"openrouter", "custom"} }
      \cup { [provider |-> p, base_url |-> u] :
               p \in {"openrouter", "custom"}, u \in BaseUrls \cup {NoUrl} }

\* validate_custom_url(cls, v, info) with info.data['provider'] = p and e
\* the value of ALLOW_ALL_CUSTOM_URLS in the environment ("unset" when it
\* is not set): the error raised, or "none" when v is returned.
\* ALLOWED_CUSTOM_DOMAINS is declared after base_url, so info.data has no
\* such key yet and the default list is read.
validate_custom_url(v, p, e) ==
  LET allow_all == (IF e = "unset" THEN "false"
                    ELSE IF e = "TRUE" THEN "true" ELSE e) = "true"
  IN  IF p # "custom" THEN "none"
      ELSE IF v = NoUrl THEN "ValueError"
      ELSE IF ~allow_all /\ v.host \notin ALLOWED_CUSTOM_DOMAINS THEN "ValueError"
      ELSE "none"

\* LLMConfig(**args): the field validator of base_url runs on a value that
\* was passed; a field left out takes its default None without validation
\* (no validate_default in the model). A ValueError of the validator
\* becomes the ValidationError of the constructor.
CallLLMConfig ==
  /\ cpc = "call"
  /\ method = "LLMConfig"
  /\ LET passed == "base_url" \in DOMAIN args
         v == IF passed THEN args.base_url ELSE NoUrl
         err == IF passed
                THEN validate_custom_url(v, args.provider, self.environ)
                ELSE "none"
     IN  IF err # "none"
         THEN /\ ret' = [exc |-> "ValidationError", value |-> <<>>]
              /\ cpc' = "return"
         ELSE /\ ret' = [exc |-> "none",
                         value |-> [provider |-> args.provider, base_url |-> v]]
              /\ cpc' = "_create_provider"
  /\ UNCHANGED <<method, self, args, locals, pipevars>>

\* _create_provider() of an analyzer built on the configuration: the custom
\* provider is an OpenRouterProvider whose BASE_URL is str(base_url).
CallCreateProvider ==
  /\ cpc = "_create_provider"
  /\ method = "LLMConfig"
  /\ locals' = [BASE_URL |-> IF ret.value.provider = "custom"
                             THEN ret.value.base_url.text
                             ELSE "https://openrouter.ai/api/v1"]
  /\ cpc' = "return"
  /\ UNCHANGED <<method, self, args, ret, pipevars>>

\* ---------------------------------------------------- specification of calls
\* The pipeline is not running.
PipelineIdle ==
  /\ provider = "openrouter"
  /\ checker_provider = "None"
  /\ path_exists = TRUE
  /\ enable_checker = FALSE
  /\ rate_limit_delay = 0
  /\ max_workers = 1
  /\ input_relative = FALSE
  /\ nbatches = 0
  /\ has_chunks = <<>>
  /\ pc = "idle"
  /\ exc = "none"
  /\ sem = 1
  /\ tpc = <<>>
  /\ attempts = <<>>
  /\ lastresp = <<>>
  /\ parsed = <<>>
  /\ call_exc = <<>>
  /\ results = <<>>
  /\ slept = <<>>
  /\ batch_codes = [k \in {} |-> CodeChunk(0)]
  /\ all_findings = <<>>
  /\ report = NoReport
  /\ vpc = "idle"
  /\ vidx = 0
  /\ vattempts = 0
  /\ vlastresp = NoResponse
  /\ vresult = NoVerdict
  /\ vcalls = <<>>
  /\ vfailed = {}
  /\ vslept = 0
  /\ given = <<>>
  /\ validated_findings = <<>>

\* A method about to be called, with its object and its arguments.
CalledMethod ==
     \/ /\ method = "create_batches"
        /\ self \in { [config |-> [DefaultScanConfig EXCEPT !.batch_size = b]] :
                        b \in BatchSizes }
        /\ args \in { [files |-> fl] : fl \in FileLists }
     \/ /\ method = "read_file_chunked"
        /\ self \in { [config |-> [DefaultScanConfig EXCEPT !.chunk_size = c]] :
                        c \in ChunkSizes }
        /\ args \in { [file |-> f] : f \in ReadableFiles \cup {UnreadableFile} }
     \/ /\ method = "collect_files"
        /\ self \in { [config |-> [DefaultScanConfig EXCEPT !.max_file_size = m]] :
                        m \in MaxFileSizes }
        /\ args \in { [root |-> r] : r \in Roots }
     \/ /\ method = "_parse_findings"
        /\ self = <<>>
        /\ args \in Truncations \cup WholeResponses
     \/ /\ method = "calculate_severity_stats"
        /\ self \in Reports
        /\ args = <<>>
     \/ /\ method \in {"generate_executive_summary", "generate_conclusion"}
        /\ self \in UNION { { [rd EXCEPT !.severity_stats = st] :
                                 st \in PriorStats(rd) } : rd \in Reports }
        /\ args = <<>>
     \/ /\ method \in {"scan", "generate_text_report"}
        /\ self = <<>>
        /\ args \in { [report_data |-> MakeReport(rd.findings)] : rd \in Reports }
     \/ /\ method = "LLMConfig"
        /\ self \in { [environ |-> e] : e \in {"unset", "false", "true", "TRUE"} }
        /\ args \in LLMConfigInputs
     \/ /\ method = "_process_batch"
        /\ self \in { [config |-> [DefaultScanConfig EXCEPT !.chunk_size = c],
                       input_path |-> p] : c \in ChunkSizes, p \in InputPaths }
        /\ args \in ProcessBatchInputs

\* One method call on arguments drawn from the bounded input sets, or
\* _parse_findings at the point where json.loads has returned the data.
InitCalls ==
  /\ PipelineIdle
  /\ ret = NoReturn
  /\ \/ /\ method = "_parse_findings"
        /\ self = <<>>
        /\ args = [raise_on_error |-> TRUE]
        /\ locals \in { [data |-> d] : d \in DecodedData }
        /\ cpc = "decoded"
     \/ /\ cpc = "call"
        /\ locals = <<>>
        /\ CalledMethod

NextCalls ==
  \/ CallCreateBatches
  \/ CallReadFileChunked
  \/ CallCollectFiles
  \/ ParseFindingsCall
  \/ JsonLoadsStep
  \/ JsonLoadsEnd
  \/ ParseFindingsItems
  \/ CallCalculateSeverityStats
  \/ CallProcessBatch
  \/ CallGenerateText
  \/ CallSummary
  \/ CallLLMConfig
  \/ CallCreateProvider

SpecCalls == InitCalls /\ [][NextCalls]_vars


\* ================================================================ claims
\* The run is configured with a provider that is not one of the three known
\* ones, with the checker enabled and a checker provider that is not set or
\* not known, or with an input path that does not exist.
ConfigurationError ==
  LET known == {"openrouter", "openai", "custom"}
  IN \/ provider \notin known
     \/ enable_checker /\ checker_provider \notin known
     \/ ~path_exists

Inside(b) == tpc[b] \in {"request", "backoff", "ratelimit"}
InFlight(b) == tpc[b] = "request"
BatchFailed(b) == call_exc[b] # "none" \/ results[b].exc # "none"
FromBatch(fl, b) == SelectSeq(fl, LAMBDA f : f.origin = b)

\* C1: at every moment at most max_workers batches are inside _process_batch,
\* hence at most max_workers analyze_code requests are in flight.
C1_BoundedConcurrency ==
  /\ Cardinality({b \in Batches : Inside(b)}) <= max_workers
  /\ Cardinality({b \in Batches : InFlight(b)}) <= max_workers

\* C1 witness: more batches than workers, the cap is reached by requests in
\* flight and a further batch is waiting for a slot.
C1_Witness ==
  /\ nbatches > max_workers
  /\ Cardinality({b \in Batches : InFlight(b)}) = max_workers
  /\ \E b \in Batches : tpc[b] = "pending"

\* C2: once the batch tasks are gathered every batch has run to completion;
\* a batch whose processing failed contributes no finding, the findings of
\* every other batch are all in all_findings, and a report that is returned
\* lists exactly all_findings.
C2_FailureIsolation ==
  (pc \notin {"new", "analyze", "gather"} /\ ~ConfigurationError) =>
    /\ \A b \in Batches : tpc[b] = "resolved"
    /\ \A b \in Batches :
         FromBatch(all_findings, b) = IF BatchFailed(b) THEN <<>> ELSE parsed[b]
    /\ pc = "done" => report.made /\ report.findings = all_findings

\* C2 witness: a report is returned after one batch failed in analyze_code
\* and a later batch returned findings, which the report lists.
C2_Witness ==
  /\ pc = "done"
  /\ \E b, c \in Batches :
       /\ b < c
       /\ call_exc[b] # "none"
       /\ parsed[c] # <<>>
       /\ FromBatch(report.findings, c) = parsed[c]

\* C3 (as claimed): a finding whose validate_finding call raised stays in
\* the result set with verdict "Needs Review" and confidence "Low", and the
\* pass goes on: it does not end by an exception, and when analyze() is done
\* every finding has been submitted to the checker.
C3_DegradedAndRetained ==
  \A i \in vfailed :
    /\ pc # "raised"
    /\ Attr(all_findings[i], "validation_verdict") = "Needs Review"
    /\ Attr(all_findings[i], "validation_confidence") = "Low"
    /\ pc = "done" => /\ Len(vcalls) = Len(given)
                      /\ Len(report.findings) = Len(given)

\* C4 (as claimed): the original_code of every validate_finding call is the
\* combined code text of the batch that produced the finding.
C4_OriginalCodeOfOwnBatch ==
  \A k \in 1..Len(vcalls) :
    vcalls[k].code = CodeChunk(given[vcalls[k].idx].origin)

\* C5: a call of analyze_code or validate_finding makes at most 3 attempts;
\* it waits for another attempt only after attempt 1 or 2, and a call that
\* ended on a retryable failure made exactly 3 attempts and raised.
C5_AtMostThreeAttempts ==
  /\ \A b \in Batches : attempts[b] <= 3
  /\ vattempts <= 3
  /\ \A b \in Batches : tpc[b] = "backoff" => attempts[b] \in {1, 2}
  /\ vpc = "backoff" => vattempts \in {1, 2}
  /\ \A b \in Batches :
       (call_exc[b] # "none" /\ RetryIfException(AnalyzeAttempt(lastresp[b]).exc))
         => attempts[b] = 3 /\ call_exc[b] = "RetryError"
  /\ (vlastresp # NoResponse /\ vpc # "backoff"
        /\ RetryIfException(ValidateAttempt(vlastresp).exc))
         => vattempts = 3

\* C5 witness: an analyze_code call failed three times with retryable
\* failures and raised, and a validate_finding call did the same.
C5_Witness ==
  /\ \E b \in Batches :
       /\ call_exc[b] = "RetryError"
       /\ attempts[b] = 3
  /\ vfailed # {}
  /\ vattempts = 3
  /\ vlastresp # NoResponse
  /\ RetryIfException(ValidateAttempt(vlastresp).exc)

\* An HTTP 4xx answer other than 429.
ClientError(r) ==
  r.transport = "ok" /\ r.status \in 400..499 /\ r.status # 429

\* C6 (as claimed): after an HTTP 4xx answer other than 429 the call makes
\* no further attempt: it never waits for a retry and fails at attempt 1.
C6_NoRetryOnClientError ==
  /\ \A b \in Batches : tpc[b] = "backoff" => ~ClientError(lastresp[b])
  /\ vpc = "backoff" => ~ClientError(vlastresp)
  /\ \A b \in Batches :
       (call_exc[b] # "none" /\ ClientError(lastresp[b])) => attempts[b] = 1

\* An HTTP 200 answer from which analyze_code gets no finding list.
Malformed(r) ==
  r.transport = "ok" /\ r.status = 200 /\ AnalyzeAttempt(r).exc # "none"

\* C7 (as claimed): an analyze_code call ends on a malformed response only
\* after the retry envelope is exhausted, whatever the malformation.
C7_MalformedRetried ==
  \A b \in Batches :
    (call_exc[b] # "none" /\ Malformed(lastresp[b]))
      => attempts[b] = MaxAttempts /\ call_exc[b] = "RetryError"

\* C8 (as claimed): no behaviour of the providers makes analyze() raise:
\* a run that was constructed and found its input path does not raise.
C8_NeverRaises == ~ConfigurationError => pc # "raised" /\ exc = "none"

ValidationAttrSet == { ValidationAttrs[i] : i \in 1..Len(ValidationAttrs) }

\* C9 (as claimed): with the checker disabled no validation field is ever
\* set; with the checker enabled every finding has all its validation
\* fields set when analyze() ends.
C9_ValidationFieldsSet ==
  /\ ~enable_checker =>
       \A i \in 1..Len(all_findings) : \A a \in ValidationAttrSet :
         Attr(all_findings[i], a) = "unset"
  /\ (enable_checker /\ pc \in {"done", "raised"}) =>
       \A i \in 1..Len(all_findings) : \A a \in ValidationAttrSet :
         Attr(all_findings[i], a) # "unset"

CoreFields == {"title", "severity", "description", "evidence", "remediation"}

\* C10 (as claimed): a validation pass that was started hands back the
\* findings it was given, same count and order, core fields unchanged.
C10_PassReturnsGiven ==
  (given # <<>> /\ pc \in {"done", "raised"}) =>
    /\ Len(validated_findings) = Len(given)
    /\ \A i \in 1..Len(given) : \A a \in CoreFields :
         validated_findings[i][a] = given[i][a]


\* -------------------------------------------------------- FileCollector
\* The call of method m has returned a value.
Returned(m) == method = m /\ cpc = "return" /\ ret.exc = "none"

\* Size of the file listed under path p in a (file_path, file_size) list.
SizeOf(files, p) == files[CHOOSE i \in 1..Len(files) : files[i].path = p].size

RECURSIVE TotalSize(_, _)
TotalSize(files, batch) ==
  IF batch = <<>> THEN 0
  ELSE SizeOf(files, Head(batch)) + TotalSize(files, Tail(batch))

\* C11: every batch create_batches returns has total size <= batch_size,
\* unless it consists of exactly one file whose own size exceeds batch_size.
C11_BatchWithinSize ==
  Returned("create_batches") =>
    \A k \in 1..Len(ret.value) :
      \/ TotalSize(args.files, ret.value[k]) <= self.config.batch_size
      \/ /\ Len(ret.value[k]) = 1
         /\ SizeOf(args.files, ret.value[k][1]) > self.config.batch_size

\* C11 witness: create_batches returned a batch of several files that fills
\* batch_size exactly and a batch made of one file larger than batch_size.
C11_Witness ==
  /\ Returned("create_batches")
  /\ \E k \in 1..Len(ret.value) :
       /\ Len(ret.value[k]) >= 2
       /\ TotalSize(args.files, ret.value[k]) = self.config.batch_size
  /\ \E k \in 1..Len(ret.value) :
       /\ Len(ret.value[k]) = 1
       /\ SizeOf(args.files, ret.value[k][1]) > self.config.batch_size


RECURSIVE ConcatContents(_)
ConcatContents(chunks) ==
  IF chunks = <<>> THEN "" ELSE Head(chunks).content \o ConcatContents(Tail(chunks))

RECURSIVE ConcatLines(_)
ConcatLines(chunks) ==
  IF chunks = <<>> THEN <<>> ELSE Head(chunks).lines \o ConcatLines(Tail(chunks))

\* C12: for a readable file, the contents of the chunks read_file_chunked
\* returns, concatenated in order, are the text of the file as read, and
\* the lines of the chunks in order are the lines of the file: none lost,
\* duplicated or reordered.
C12_ChunksReproduceLines ==
  (Returned("read_file_chunked") /\ args.file.readable) =>
    /\ ConcatContents(ret.value) = Join(DecodedLines(args.file))
    /\ ConcatLines(ret.value) = DecodedLines(args.file)

\* C12 witness: a readable file was split into several chunks, one of them
\* of several lines.
C12_Witness ==
  /\ Returned("read_file_chunked")
  /\ args.file.readable
  /\ Len(ret.value) >= 2
  /\ \E k \in 1..Len(ret.value) : Len(ret.value[k].lines) >= 2


\* The entries under a root, and those the claimed rule of collect_files
\* admits: regular file, allowed extension, at most max_file_size bytes, no
\* exclusion pattern matched by its name or by a directory above it.
Under(root) ==
  IF root.kind = "dir" THEN { TreeEntries[i] : i \in root.tree }
  ELSE { root.entry }
Admissible(e, max_file_size) ==
  /\ e.regular
  /\ Lower(Suffix(e.name)) \in SupportedExtensions
  /\ e.size <= max_file_size
  /\ ~IsExcluded(e.name)
  /\ \A k \in 1..Len(e.dirs) : ~IsExcluded(e.dirs[k])
PathUnder(root, e) ==
  IF root.kind = "dir" THEN PathOf(e.dirs, e.name) ELSE e.name

\* C13 (as claimed): for a directory or single-file root, collect_files
\* returns exactly the admissible files, each once; no file over
\* max_file_size is returned.
C13_CollectsExactlyAdmissible ==
  Returned("collect_files") =>
    /\ { ret.value[k].path : k \in 1..Len(ret.value) }
         = { PathUnder(args.root, e) :
               e \in { e \in Under(args.root) :
                         Admissible(e, self.config.max_file_size) } }
    /\ \A j, k \in 1..Len(ret.value) :
         ret.value[j].path = ret.value[k].path => j = k
    /\ \A k \in 1..Len(ret.value) :
         ret.value[k].size <= self.config.max_file_size



\* ---------------------------------------------------- OpenRouterProvider
\* C14 (as claimed): for a valid findings document cut short by K characters
\* outside every string literal, the text _attempt_json_repair returns
\* parses as JSON: the json.loads that follows the repair succeeds.
C14_RepairGivesValidJson ==
  (/\ method = "_parse_findings" /\ "K" \in DOMAIN args /\ args.K > 0
   /\ cpc \in {"decoded", "return"})
    => (locals.repaired /\ cpc = "decoded")


\* _parse_findings was followed from the decoded data, whose "findings" is
\* a list, and it is over.
ItemsParsed ==
  /\ method = "_parse_findings"
  /\ cpc = "return"
  /\ "data" \in DOMAIN locals
  /\ locals.data.findings.t = "list"

\* The items of the response that are well-formed findings, in order.
WellFormedItems == SelectSeq(locals.data.findings.items, ValidFinding)

\* C15: when the decoded list holds an item that lacks one of title,
\* severity, description, remediation, _parse_findings does not raise and
\* returns exactly the well-formed items of the list, in their order: the
\* incomplete item is dropped and none of its siblings is.
C15_IncompleteFindingDropped ==
  (/\ ItemsParsed
   /\ \E i \in DOMAIN locals.data.findings.items :
        LET item == locals.data.findings.items[i]
        IN item.kind = "dict" /\ MissingFields(item) # <<>>)
    => /\ ret.exc = "none"
       /\ Len(ret.value) = Len(WellFormedItems)
       /\ \A k \in DOMAIN ret.value :
            /\ ret.value[k].title = WellFormedItems[k].title.s
            /\ ret.value[k].severity = WellFormedItems[k].severity.s
            /\ ret.value[k].description = WellFormedItems[k].description.s
            /\ ret.value[k].remediation = WellFormedItems[k].remediation.s

\* An item without severity comes first, a well-formed sibling follows and
\* is returned.
C15_Witness ==
  /\ ItemsParsed
  /\ Len(locals.data.findings.items) = 2
  /\ locals.data.findings.items[1].title = JStr("C")
  /\ locals.data.findings.items[1].severity = JAbsent
  /\ ValidFinding(locals.data.findings.items[2])
  /\ Len(ret.value) = 1
  /\ ret.value[1].title = locals.data.findings.items[2].title.s

\* C16: every well-formed item is returned, also when its evidence list
\* holds malformed entries, and the evidence of the returned finding is
\* exactly the well-formed entries of that list, in their order.
C16_MalformedEvidenceDroppedAlone ==
  ItemsParsed
    => /\ Len(ret.value) = Len(WellFormedItems)
       /\ \A k \in DOMAIN ret.value :
            LET kept == SelectSeq(WellFormedItems[k].evidence.items,
                                  ValidEvidence)
            IN /\ Len(ret.value[k].evidence) = Len(kept)
               /\ \A e \in DOMAIN kept :
                    /\ ret.value[k].evidence[e].file_path = kept[e].file_path.s
                    /\ ret.value[k].evidence[e].code = kept[e].code.s

\* A finding whose evidence list is a well-formed entry, a malformed one
\* and a well-formed one again is returned with the two well-formed ones.
C16_Witness ==
  /\ ItemsParsed
  /\ \E k \in DOMAIN ret.value :
       LET raw == WellFormedItems[k].evidence.items
       IN /\ Len(raw) = 3
          /\ ValidEvidence(raw[1]) /\ ~ValidEvidence(raw[2])
          /\ ValidEvidence(raw[3])
          /\ Len(ret.value[k].evidence) = 2
          /\ ret.value[k].evidence[2].file_path = raw[3].file_path.s


\* ------------------------------------------------------------- ReportData
\* C17: after calculate_severity_stats the keys of severity_stats are
\* exactly critical, high, medium, low, info; the value under each key is
\* the number of findings of that severity, Informational being counted
\* under info; and the five values add up to the number of findings.
C17_SeverityStatsCount ==
  Returned("calculate_severity_stats")
    => /\ DOMAIN self.severity_stats = {"critical", "high", "medium", "low", "info"}
       /\ \A k \in DOMAIN self.severity_stats :
            self.severity_stats[k] =
              Cardinality({ i \in DOMAIN self.findings :
                              self.findings[i].severity =
                                [critical |-> "Critical", high |-> "High",
                                 medium |-> "Medium", low |-> "Low",
                                 info |-> "Informational"][k] })
       /\ self.severity_stats["critical"] + self.severity_stats["high"]
          + self.severity_stats["medium"] + self.severity_stats["low"]
          + self.severity_stats["info"] = Len(self.findings)

\* Findings High, Critical and Informational have been counted.
C17_Witness ==
  /\ Returned("calculate_severity_stats")
  /\ Len(self.findings) = 3
  /\ self.findings[1].severity = "High"
  /\ self.findings[2].severity = "Critical"
  /\ self.findings[3].severity = "Informational"
  /\ self.severity_stats = [critical |-> 1, high |-> 1, medium |-> 0,
                            low |-> 0, info |-> 1]

\* C18 (as claimed): every ReportData analyze() returns, the one of a scan
\* that found no file included, has severity_stats with exactly the five
\* severity keys and an executive_summary and a conclusion that are
\* non-empty texts, all three computed from its finding list.
C18_EveryReportIsComplete ==
  report.made
    => /\ DOMAIN report.severity_stats = {"critical", "high", "medium", "low", "info"}
       /\ report.executive_summary.t = "str" /\ report.executive_summary.s # ""
       /\ report.conclusion.t = "str" /\ report.conclusion.s # ""
       /\ report = MakeReport(report.findings)


\* ------------------------------------------------ merge of batch results
\* How often finding f occurs in list fl, and in the lists returned by the
\* batches 1..b whose task resolved without an exception.
CountIn(f, fl) == Cardinality({ i \in DOMAIN fl : fl[i] = f })
RECURSIVE CountReturned(_, _)
CountReturned(f, b) ==
  IF b = 0 THEN 0
  ELSE (IF results[b].exc = "none" THEN CountIn(f, results[b].findings) ELSE 0)
       + CountReturned(f, b - 1)

\* C19: in whatever order the batch tasks complete, the finding list of the
\* report analyze() returns holds every finding exactly as often as the
\* successfully resolved batches returned it: none is lost, duplicated or
\* overwritten.
C19_ReportIsMultisetUnion ==
  (pc = "done" /\ report.made)
    => \A f \in { report.findings[i] : i \in DOMAIN report.findings }
                \cup UNION { { results[b].findings[i] :
                                 i \in DOMAIN results[b].findings } :
                             b \in Batches } :
         CountIn(f, report.findings) = CountReturned(f, nbatches)

\* C19 witness: two batches resolved with findings, one of them returned the
\* same finding twice, and the report lists the findings of both.
C19_Witness ==
  /\ pc = "done"
  /\ report.made
  /\ nbatches = 2
  /\ results[1].exc = "none" /\ results[1].findings # <<>>
  /\ results[2].exc = "none" /\ results[2].findings # <<>>
  /\ \E f \in { report.findings[i] : i \in DOMAIN report.findings } :
       CountIn(f, report.findings) = 2
  /\ Len(report.findings)
       = Len(results[1].findings) + Len(results[2].findings)


\* C20 (as claimed): while the batch tasks run, no step of a task touches
\* analyzer state other than the findings accumulator: self.batch_codes and
\* the report stay as they are until gather has every result.
C20_TasksShareNoAnalyzerState ==
  [][(pc = "gather" /\ pc' = "gather") => UNCHANGED <<batch_codes, report>>]_vars

\* ------------------------------------------------------ validation pass
\* C21: a validate_finding call has been made only when every batch task
\* has resolved, with a result or with an exception.
C21_ValidationAfterAllBatches ==
  (vcalls # <<>> \/ vpc # "idle" \/ pc = "validate")
    => \A b \in Batches : tpc[b] = "resolved"

\* C21 witness: the first validate_finding request is in flight after one
\* batch task failed and another returned findings.
C21_Witness ==
  /\ pc = "validate"
  /\ vpc = "request"
  /\ Len(vcalls) = 1
  /\ \E b, c \in Batches :
       /\ call_exc[b] # "none"
       /\ results[c].exc = "none" /\ results[c].findings # <<>>


\* ------------------------------------------------------- configuration
\* C22: in a run whose provider is unknown, whose checker is enabled
\* without a known checker provider, or whose input path does not exist, no
\* batch task ever starts and no validate_finding call is made: no request
\* is sent to a provider, and the run ends by ValueError.
C22_ConfigErrorBeforeNetwork ==
  ConfigurationError
    => /\ \A b \in Batches : tpc[b] = "pending" /\ attempts[b] = 0
       /\ vcalls = <<>> /\ vpc = "idle"
       /\ pc \in {"new", "analyze", "raised"}
       /\ pc = "raised" => exc = "ValueError"

\* C22 witness: a run with two batches to analyse and the checker enabled
\* without a checker provider has ended by ValueError.
C22_Witness ==
  /\ pc = "raised"
  /\ exc = "ValueError"
  /\ provider = "openrouter"
  /\ enable_checker /\ checker_provider = "None"
  /\ nbatches = 2
  /\ has_chunks = <<TRUE, TRUE>>


\* ------------------------------------------------------------ rate limit
\* The validate_finding calls that returned a result so far.
ValidateCallsReturned ==
  Len(vcalls) - (IF vpc = "idle" THEN 0 ELSE 1) - Cardinality(vfailed)

\* C23: a batch task whose analyze_code call returned has slept the
\* configured rate_limit_delay once in that call, and a task whose call
\* failed, is still running or was never made has slept nothing; the sleep
\* is taken with the parsed findings in hand and before they are returned;
\* the validate_finding calls together have slept the delay once per call
\* that returned. This holds for every number of workers.
C23_RateLimitOncePerCall ==
  /\ \A b \in Batches :
       /\ slept[b] = IF /\ tpc[b] = "resolved" /\ has_chunks[b]
                        /\ results[b].exc = "none" /\ call_exc[b] = "none"
                     THEN rate_limit_delay ELSE 0
       /\ tpc[b] = "ratelimit"
            => /\ rate_limit_delay > 0
               /\ call_exc[b] = "none"
               /\ results[b].findings = <<>>
       /\ tpc[b] = "backoff" => lastresp[b] # NoResponse
  /\ vslept = rate_limit_delay * ValidateCallsReturned
  /\ vpc = "ratelimit" => rate_limit_delay > 0 /\ vresult.exc = "none"

\* C23 witness: with two workers and the default delay, one call has slept
\* the delay and returned while the other one, whose first attempt failed,
\* is in its rate-limit sleep after the second attempt.
C23_Witness ==
  /\ rate_limit_delay = 5
  /\ max_workers = 2
  /\ tpc = <<"ratelimit", "resolved">>
  /\ attempts[1] = 2
  /\ slept = <<0, 5>>
  /\ results[2].findings # <<>>

\* The one validate_finding call of a run has returned a verdict and has
\* slept the delay.
C23_WitnessValidate ==
  /\ rate_limit_delay = 5
  /\ vslept = 5
  /\ Len(vcalls) = 1
  /\ vfailed = {}
  /\ vpc = "idle"


\* --------------------------------------------------------- batch text
\* The parts of combined_code that name the file at position k of the
\* batch in their marker.
MarkersOf(k) ==
  LET name == "f" \o ToString(k) \o ".py"
  IN { i \in 1..Len(locals.combined_code) :
         Contains(locals.combined_code[i], name \o " (starting at line") }

\* A batch with a file that cannot be read has been processed: the file
\* added nothing to combined_code, every chunk of the other files of the
\* batch is in the text, the text was submitted when there is one, and
\* nothing was raised.
UnreadableSkipped ==
  (method = "_process_batch" /\ cpc # "call")
       => LET batch == args.batch
              chunks(k) == ReadFileChunked(batch[k].file, self.config.chunk_size)
              unread == { k \in 1..Len(batch) : ~batch[k].file.readable }
          IN unread # {}
               => /\ ret.exc = "none"
                  /\ \A k \in unread : MarkersOf(k) = {}
                  /\ \A k \in 1..Len(batch) \ unread :
                       /\ Cardinality(MarkersOf(k)) = Len(chunks(k))
                       /\ \A c \in 1..Len(chunks(k)) :
                            \E i \in MarkersOf(k) :
                              locals.combined_code[i + 1] = chunks(k)[c].content
                  /\ locals.submitted
                       = (\E k \in 1..Len(batch) : chunks(k) # <<>>)

\* C24 (as claimed): read_file_chunked returns [] for a file that cannot be
\* read and does not raise; in _process_batch such a file contributes
\* nothing to the batch text, the other files of the batch are submitted
\* and the scan goes on.
C24_UnreadableFileSkipped ==
  /\ (method = "read_file_chunked" /\ cpc = "return" /\ ~args.file.readable)
       => ret = [exc |-> "none", value |-> <<>>]
  /\ UnreadableSkipped

\* The same with input_path given as an absolute path.
C24_UnreadableFileSkippedAbsoluteRoot ==
  /\ (method = "read_file_chunked" /\ cpc = "return" /\ ~args.file.readable)
       => ret = [exc |-> "none", value |-> <<>>]
  /\ (method = "_process_batch" => self.input_path.anchor = "/")
       => UnreadableSkipped

\* A batch of a file that cannot be read and a file of two chunks has been
\* processed and its text was submitted.
C24_Submitted ==
  /\ method = "_process_batch"
  /\ cpc = "analyze_code"
  /\ Len(args.batch) = 2
  /\ ~args.batch[1].file.readable
  /\ Len(args.batch[2].file.lines) = 2
  /\ Len(locals.combined_code) = 4


\* ------------------------------------------------------------ report texts
\* C25 (as claimed): the text generate_executive_summary or
\* generate_conclusion has set is the one it sets on every ReportData with
\* the same application name and the same findings, whatever that one's
\* severity_stats held before, calculated or not.
C25_TextsDependOnFindingsOnly ==
  (cpc = "return"
     /\ method \in {"generate_executive_summary", "generate_conclusion"})
    => \A st \in PriorStats(ReportData(self.application_name, self.findings)) :
         LET other == [ReportData(self.application_name, self.findings)
                         EXCEPT !.severity_stats = st]
         IN /\ method = "generate_executive_summary"
                 => GenerateExecutiveSummary(other).executive_summary
                      = self.executive_summary
            /\ method = "generate_conclusion"
                 => GenerateConclusion(other).conclusion = self.conclusion


\* ---------------------------------------------------------------- verdicts
\* C26 (as claimed): the result validate_finding is returning, and every
\* verdict stored on a finding, has its verdict among Confirmed, Likely
\* False Positive and Needs Review and its confidence among High, Medium
\* and Low.
C26_VerdictInRange ==
  LET verdicts == {"Confirmed", "Likely False Positive", "Needs Review"}
      confidences == {"High", "Medium", "Low"}
  IN /\ vpc = "ratelimit"
          => vresult.verdict \in verdicts /\ vresult.confidence \in confidences
     /\ \A i \in 1..Len(all_findings) :
          /\ Attr(all_findings[i], "validation_verdict") \in verdicts \cup {"unset"}
          /\ Attr(all_findings[i], "validation_confidence")
               \in confidences \cup {"unset"}


\* ------------------------------------------------------------- exclusion
\* C27: in directory mode no file collect_files returns lies under a
\* directory of the scanned tree whose name matches an exclusion pattern,
\* however deep below that directory the file is.
C27_NothingUnderExcludedDirectory ==
  (Returned("collect_files") /\ args.root.kind = "dir") =>
    \A k \in 1..Len(ret.value) : \A e \in Under(args.root) :
      PathOf(e.dirs, e.name) = ret.value[k].path
        => \A d \in 1..Len(e.dirs) : ~IsExcluded(e.dirs[d])

\* C27 witness: the tree holds a file in node_modules, a file two levels
\* down in src/myvenv and a file at the top; only the last one is returned.
C27_Witness ==
  /\ Returned("collect_files")
  /\ args.root.kind = "dir"
  /\ { PathOf(e.dirs, e.name) : e \in Under(args.root) }
       = {"app.py", "node_modules/dep.js", "src/myvenv/x.py"}
  /\ ret.value = <<[path |-> "app.py", size |-> 500]>>


\* -------------------------------------------------------------- code keys
\* The keys of batch_codes that hold the text of batch b.
KeysOfBatch(b) == { k \in DOMAIN batch_codes : batch_codes[k].batch = b }

\* C28 (as claimed), on the case it names: when a batch has stored the code
\* for two findings that share a title, entries of the batch went under the
\* same key, so that batch_codes holds fewer keys for the batch than the
\* batch has findings.
C28_SharedTitleCollides ==
  \A b \in Batches :
    (/\ enable_checker
     /\ \E i, j \in 1..Len(results[b].findings) :
          i # j /\ results[b].findings[i].title = results[b].findings[j].title)
      => Cardinality(KeysOfBatch(b)) < Len(results[b].findings)

\* C28 (amended): no two findings are ever stored under the same key,
\* whether they share a title or not and whether they come from one batch
\* or from two: the index of the key is len(batch_codes) at the moment of
\* the store, which grows with every store, so batch_codes holds one key
\* per finding of every batch that returned.
C28_EveryFindingHasItsOwnKey ==
  enable_checker =>
    \A b \in Batches : Cardinality(KeysOfBatch(b)) = Len(results[b].findings)

\* C28 witness: a batch stored two findings of title A after another batch
\* had stored one of the same title: three keys, two of them of this batch.
C28_Witness ==
  /\ enable_checker
  /\ nbatches = 2
  /\ Len(results[1].findings) = 2
  /\ results[1].findings[1].title = results[1].findings[2].title
  /\ KeysOfBatch(1) = {"A_1", "A_2"}
  /\ KeysOfBatch(2) = {"A_0"}


\* ------------------------------------------------------ validation attempts
\* C29 (as claimed): a validate_finding call makes one attempt against the
\* checker and never sleeps for another one, and a finding whose attempt
\* failed carries the verdict Needs Review.
C29_SingleAttemptThenDegrade ==
  /\ vattempts <= 1
  /\ vpc # "backoff"
  /\ \A i \in vfailed : Attr(all_findings[i], "validation_verdict") = "Needs Review"


\* The batch text the claim describes: for each file in batch order and each
\* of its chunks in chunk order, a marker with the path of the file relative
\* to the root ("." for the root itself) and the starting line of the chunk,
\* then the chunk.
RECURSIVE MarkedChunks(_, _)
MarkedChunks(batch, chunk_size) ==
  IF batch = <<>> THEN <<>>
  ELSE LET rel == Head(batch).rel
           name[i \in 0..Len(rel)] ==
             IF i = 0 THEN "."
             ELSE IF i = 1 THEN rel[1]
             ELSE name[i - 1] \o "/" \o rel[i]
           chunks == ReadFileChunked(Head(batch).file, chunk_size)
           marked[i \in 0..Len(chunks)] ==
             IF i = 0 THEN <<>>
             ELSE marked[i - 1]
                    \o << "\n# File: " \o name[Len(rel)] \o " (starting at line "
                            \o ToString(chunks[i].start_line) \o ")\n",
                          chunks[i].content >>
       IN marked[Len(chunks)] \o MarkedChunks(Tail(batch), chunk_size)

\* C30 (as claimed): for an absolute or relative input path, a directory or
\* a single file, _process_batch builds the text of marked chunks of the
\* files of the batch and submits it to the provider.
C30_BatchTextMarkedAndSubmitted ==
  (method = "_process_batch" /\ cpc # "call") =>
    LET text == MarkedChunks(args.batch, self.config.chunk_size)
    IN /\ ret.exc = "none"
       /\ locals.combined_code = text
       /\ text # <<>> => locals.submitted /\ cpc = "analyze_code"

\* The same with input_path given as an absolute path.
C30_BatchTextMarkedAbsoluteRoot ==
  (method = "_process_batch" /\ cpc # "call" /\ self.input_path.anchor = "/") =>
    LET text == MarkedChunks(args.batch, self.config.chunk_size)
    IN /\ ret.exc = "none"
       /\ locals.combined_code = text
       /\ text # <<>> => locals.submitted /\ cpc = "analyze_code"


\* ------------------------------------------------------------ chunk lines
\* The number of lines of the first n chunks.
RECURSIVE LinesBefore(_, _)
LinesBefore(chunks, n) ==
  IF n = 0 THEN 0 ELSE LinesBefore(chunks, n - 1) + Len(chunks[n].lines)

\* C31: the starting line of every chunk read_file_chunked returns is 1
\* plus the number of lines of the chunks before it, and the first line of
\* the chunk is the line of that number in the file.
C31_StartLineCountsEarlierLines ==
  Returned("read_file_chunked") =>
    \A k \in 1..Len(ret.value) :
      /\ ret.value[k].start_line = 1 + LinesBefore(ret.value, k - 1)
      /\ ret.value[k].lines[1] = DecodedLines(args.file)[ret.value[k].start_line]

\* C31 witness: a file was read into three chunks starting at lines 1, 3
\* and 4, the first one of two lines.
C31_Witness ==
  /\ Returned("read_file_chunked")
  /\ Len(ret.value) = 3
  /\ Len(ret.value[1].lines) = 2
  /\ ret.value[2].start_line = 3
  /\ ret.value[3].start_line = 4


\* ------------------------------------------------------------ chunk sizes
\* len(content.encode('utf-8')) of a chunk: the sizes of its lines.
RECURSIVE EncodedSize(_)
EncodedSize(lines) ==
  IF lines = <<>> THEN 0 ELSE Head(lines).size + EncodedSize(Tail(lines))

\* C32: every chunk read_file_chunked returns has content, and its encoded
\* size is at most chunk_size unless it is one line that is larger than
\* chunk_size by itself; two consecutive chunks together are larger than
\* chunk_size.
C32_ChunksBoundedAndMaximal ==
  Returned("read_file_chunked") =>
    LET chunks == ret.value
        chunk_size == self.config.chunk_size
    IN /\ \A k \in 1..Len(chunks) :
            /\ chunks[k].lines # <<>> /\ chunks[k].content # ""
            /\ \/ EncodedSize(chunks[k].lines) <= chunk_size
               \/ Len(chunks[k].lines) = 1 /\ chunks[k].lines[1].size > chunk_size
       /\ \A k \in 1..(Len(chunks) - 1) :
            EncodedSize(chunks[k].lines) + EncodedSize(chunks[k + 1].lines)
              > chunk_size

\* C32 witness: a chunk of two lines fills chunk_size exactly and is
\* followed by a chunk made of one line larger than chunk_size.
C32_Witness ==
  /\ Returned("read_file_chunked")
  /\ Len(ret.value) >= 2
  /\ Len(ret.value[1].lines) = 2
  /\ EncodedSize(ret.value[1].lines) = self.config.chunk_size
  /\ Len(ret.value[2].lines) = 1
  /\ ret.value[2].lines[1].size > self.config.chunk_size


\* ---------------------------------------------------------- batch partition
\* The paths of the batches read in order.
RECURSIVE Flatten(_)
Flatten(batches) ==
  IF batches = <<>> THEN <<>> ELSE Head(batches) \o Flatten(Tail(batches))

\* C33: every file given to create_batches is in exactly one batch and
\* nothing else is, no batch is empty, and the batches read in order list
\* the files by ascending size.
C33_BatchesPartitionInSizeOrder ==
  Returned("create_batches") =>
    LET flat == Flatten(ret.value)
    IN /\ \A i \in 1..Len(args.files) :
            Cardinality({ j \in 1..Len(flat) : flat[j] = args.files[i].path }) = 1
       /\ Len(flat) = Len(args.files)
       /\ \A k \in 1..Len(ret.value) : ret.value[k] # <<>>
       /\ \A j \in 1..(Len(flat) - 1) :
            SizeOf(args.files, flat[j]) <= SizeOf(args.files, flat[j + 1])

\* C33 witness: four files given in descending size order came back in
\* two batches, the three smaller ones first and the file given first last.
C33_Witness ==
  /\ Returned("create_batches")
  /\ Len(args.files) = 4
  /\ \A i \in 1..3 : args.files[i].size > args.files[i + 1].size
  /\ ret.value = <<<<"f4", "f3", "f2">>, <<"f1">>>>


\* ------------------------------------------------------------ retry waits
\* C34 (as claimed): the sleep before a retry lies between 2 and 10 seconds,
\* and the sleep before the second retry, after failed attempt 2, is longer
\* than the one before the first retry, after failed attempt 1.
C34_WaitGrowsBetweenFloorAndCap ==
  LET ok(n) == /\ 2 <= WaitExponential(n) /\ WaitExponential(n) <= 10
               /\ n = 2 => WaitExponential(2) > WaitExponential(1)
  IN /\ \A b \in Batches : tpc[b] = "backoff" => ok(attempts[b])
     /\ vpc = "backoff" => ok(vattempts)

\* The bounds alone: every sleep before a retry lies between 2 and 10
\* seconds.
C34_WaitBetweenFloorAndCap ==
  /\ \A b \in Batches :
       tpc[b] = "backoff"
         => 2 <= WaitExponential(attempts[b]) /\ WaitExponential(attempts[b]) <= 10
  /\ vpc = "backoff"
       => 2 <= WaitExponential(vattempts) /\ WaitExponential(vattempts) <= 10


\* ------------------------------------------------------- fenced responses
\* C35 (as claimed): a response that holds one valid findings document
\* inside prose and/or a code fence is parsed without an error, and the
\* text that is decoded is that document, so that the findings returned are
\* the ones it lists.
C35_DocumentLocated ==
  (/\ method = "_parse_findings"
   /\ "content" \in DOMAIN args
   /\ args.K = 0
   /\ Contains(args.content, args.document)
   /\ cpc \in {"decoded", "return"})
    => /\ cpc = "decoded"
       /\ ret.exc = "none"
       /\ locals.text = args.document

\* A fenced document and a document between two sentences without braces
\* have been located and decoded.
C35_Located ==
  /\ method = "_parse_findings"
  /\ "content" \in DOMAIN args
  /\ args.content = "Here it is: {\"findings\":[]} Done."
  /\ cpc = "decoded"
  /\ locals.text = args.document


\* ------------------------------------------------------------ summary counts
\* C36 (as claimed): the summary lines of scan() and of the plain-text
\* report show, for each severity, the number of findings of that
\* severity, which is the count calculate_severity_stats holds for it.
C36_SummaryShowsSeverityCounts ==
  (Returned("scan") \/ Returned("generate_text_report")) =>
    LET rd == args.report_data
        count(sev) == Cardinality({ i \in 1..Len(rd.findings) :
                                      rd.findings[i].severity = sev })
    IN /\ rd.severity_stats = CalculateSeverityStats(rd).severity_stats
       /\ ret.value = << "Total Findings: " \o ToString(Len(rd.findings)),
                         "  Critical: " \o ToString(count("Critical")),
                         "  High: " \o ToString(count("High")),
                         "  Medium: " \o ToString(count("Medium")),
                         "  Low: " \o ToString(count("Low")),
                         "  Informational: "
                           \o ToString(count("Informational")) >>


CustomAcceptable ==
  /\ "base_url" \in DOMAIN args
  /\ args.base_url # NoUrl
  /\ \/ self.environ \in {"true", "TRUE"}
     \/ args.base_url.host \in ALLOWED_CUSTOM_DOMAINS

\* C38: a custom LLMConfig is accepted exactly when a base_url is given and
\* its host is allowlisted or ALLOW_ALL_CUSTOM_URLS is true; every other
\* custom configuration ends in an error and no provider is built on it.
C38_CustomUrlAcceptedOnlyIfAllowed ==
  (method = "LLMConfig" /\ cpc # "call" /\ args.provider = "custom")
    => /\ (ret.exc = "none") <=> CustomAcceptable
       /\ locals # <<>> => CustomAcceptable

\* C38, for constructor calls that pass base_url (None included): the
\* configuration is accepted exactly in the acceptable cases.
C38_PassedBaseUrlChecked ==
  (method = "LLMConfig" /\ cpc # "call" /\ args.provider = "custom"
     /\ "base_url" \in DOMAIN args)
    => /\ (ret.exc = "none") <=> CustomAcceptable
       /\ locals # <<>> => CustomAcceptable

\* C38: a provider was built on a custom configuration without base_url.
C38_ProviderWithoutBaseUrl ==
  /\ method = "LLMConfig"
  /\ args.provider = "custom"
  /\ cpc = "return"
  /\ locals # <<>>
  /\ locals.BASE_URL = "None"

====
